---- MODULE Spec2Model ----
(***************************************************************************)
(* State-machine model of skia-safe's Path (skia-safe/src/core/path.rs).   *)
(*                                                                         *)
(* A Path handle owns a fill type, a volatility flag, the index of the     *)
(* last Move point and a reference to a shared, reference counted block    *)
(* holding the verb array, the Point array, the conic weights, the         *)
(* generation id and the cached bounds.  The wrapper forwards every        *)
(* operation to the native SkPath; the behaviour of each native call is    *)
(* taken from the documentation the wrapper carries for it.                *)
(***************************************************************************)
EXTENDS Integers, Sequences, FiniteSets, TLC

VARIABLES path, heap, nextID, seen, iter, pc, args, nops

vars == <<path, heap, nextID, seen, iter, pc, args, nops>>

(***************************************************************************)
(* Bounds of the model.                                                    *)
(***************************************************************************)
\* The number of operations applied in one behaviour.
MaxOps == 3

(***************************************************************************)
(* Verb encoding, one byte per verb, in the storage order of the Verb      *)
(* enumeration.                                                            *)
(***************************************************************************)
Move == 0
Line == 1
Quad == 2
Conic == 3
Cubic == 4
Close == 5
Done == 6

StoredVerbs == {Move, Line, Quad, Conic, Cubic, Close}

\* Verb::points(): the number of points a verb consumes.
PtsInVerb(v) ==
    CASE v = Move -> 1
      [] v = Line -> 1
      [] v = Quad -> 2
      [] v = Conic -> 2
      [] v = Cubic -> 3
      [] OTHER -> 0

(***************************************************************************)
(* PathFillType, as stored in fFillType.                                   *)
(***************************************************************************)
Winding == 0
EvenOdd == 1
InverseWinding == 2
InverseEvenOdd == 3

FillTypes == {Winding, EvenOdd, InverseWinding, InverseEvenOdd}

(***************************************************************************)
(* Scalars used as conic weights: finite values, NaN and infinity.         *)
(***************************************************************************)
Finite(v) == [kind |-> "finite", v |-> v]
NaN == [kind |-> "nan", v |-> 0]
Infinity == [kind |-> "inf", v |-> 0]

IsFinite(w) == w.kind = "finite"
IsOne(w) == w.kind = "finite" /\ w.v = 1

(***************************************************************************)
(* Handles and the shared storage.                                         *)
(***************************************************************************)
Handles == {"p", "q"}

EmptyId == 0
RefIds == {1, 2}

ZeroRect == [left |-> 0, top |-> 0, right |-> 0, bottom |-> 0]

\* The storage of an empty path: no verbs, no points, no weights.
EmptyRef ==
    [fVerbs |-> <<>>, fPoints |-> <<>>, fConicWeights |-> <<>>,
     fGenerationID |-> 0, fBoundsIsDirty |-> FALSE, fBounds |-> ZeroRect]

\* Path::new(): no verbs, no points, no weights, fill type Winding.
NewPath ==
    [ref |-> EmptyId, fFillType |-> Winding, fIsVolatile |-> FALSE,
     fLastMoveToIndex |-> -1]

Ref(h) == heap[path[h].ref]
Verbs(h) == Ref(h).fVerbs
Points(h) == Ref(h).fPoints
Weights(h) == Ref(h).fConicWeights

\* A storage block may be written in place only by its sole owner; the
\* storage of the empty path is shared by every empty path.
Unique(h) ==
    /\ path[h].ref # EmptyId
    /\ \A g \in Handles \ {h} : path[g].ref # path[h].ref

FreeId(h) ==
    CHOOSE i \in RefIds : \A g \in Handles \ {h} : path[g].ref # i

\* Variant: a shared block is written in place.
EditorRefInPlace(h) == IF path[h].ref # EmptyId THEN path[h].ref ELSE FreeId(h)

\* The block a mutation of h writes to: its own when it is the sole owner,
\* a fresh copy otherwise.
EditorRef(h) == IF Unique(h) THEN path[h].ref ELSE FreeId(h)

(***************************************************************************)
(* The content a mutation works on: the arrays, the index of the last      *)
(* Move point (complemented once the contour is closed) and whether the    *)
(* storage has been written.                                               *)
(***************************************************************************)
Content(h) ==
    [verbs |-> Verbs(h), pts |-> Points(h), ws |-> Weights(h),
     last |-> path[h].fLastMoveToIndex, ed |-> FALSE]

Complement(i) == -i - 1

moveTo(c, p) ==
    [c EXCEPT !.last = Len(c.pts),
              !.verbs = Append(@, Move),
              !.pts = Append(@, p),
              !.ed = TRUE]

\* Variant: no Move is ever synthesized.
injectMoveToNever(c) == c

\* The start of a contour that has no explicit move_to: (0, 0) for an empty
\* path, otherwise the start point of the contour that was closed.
injectMoveToIfNeeded(c) ==
    IF c.last < 0
    THEN moveTo(c, IF Len(c.verbs) = 0
                   THEN <<0, 0>>
                   ELSE c.pts[Complement(c.last) + 1])
    ELSE c

lineTo(c, p) ==
    LET m == injectMoveToIfNeeded(c)
    IN  [m EXCEPT !.verbs = Append(@, Line),
                  !.pts = Append(@, p),
                  !.ed = TRUE]

quadTo(c, p1, p2) ==
    LET m == injectMoveToIfNeeded(c)
    IN  [m EXCEPT !.verbs = Append(@, Quad),
                  !.pts = @ \o <<p1, p2>>,
                  !.ed = TRUE]

\* Variant: the weight is stored whatever verb is selected.
conicToKeepsWeight(c, p1, p2, w) ==
    LET m == injectMoveToIfNeeded(c)
    IN  [m EXCEPT !.verbs = @ \o (IF ~IsFinite(w) THEN <<Line, Line>>
                                  ELSE IF IsOne(w) THEN <<Quad>>
                                  ELSE <<Conic>>),
                  !.pts = @ \o <<p1, p2>>,
                  !.ws = Append(@, w),
                  !.ed = TRUE]

\* Variant: a weight of one is stored as a Conic.
conicToNoQuad(c, p1, p2, w) ==
    IF ~IsFinite(w)
    THEN lineTo(lineTo(c, p1), p2)
    ELSE LET m == injectMoveToIfNeeded(c)
         IN  [m EXCEPT !.verbs = Append(@, Conic),
                       !.pts = @ \o <<p1, p2>>,
                       !.ws = Append(@, w),
                       !.ed = TRUE]

conicTo(c, p1, p2, w) ==
    IF ~IsFinite(w)
    THEN lineTo(lineTo(c, p1), p2)
    ELSE IF IsOne(w)
    THEN quadTo(c, p1, p2)
    ELSE LET m == injectMoveToIfNeeded(c)
         IN  [m EXCEPT !.verbs = Append(@, Conic),
                       !.pts = @ \o <<p1, p2>>,
                       !.ws = Append(@, w),
                       !.ed = TRUE]

cubicTo(c, p1, p2, p3) ==
    LET m == injectMoveToIfNeeded(c)
    IN  [m EXCEPT !.verbs = Append(@, Cubic),
                  !.pts = @ \o <<p1, p2, p3>>,
                  !.ed = TRUE]

\* Variant: Close is appended to every path that is not empty.
closePathAlways(c) ==
    LET marked == IF c.last >= 0 THEN Complement(c.last) ELSE c.last
    IN  IF Len(c.verbs) > 0
        THEN [c EXCEPT !.verbs = Append(@, Close), !.last = marked, !.ed = TRUE]
        ELSE [c EXCEPT !.last = marked]

\* close(): no effect if the path is empty or the last verb is Close.
closePath(c) ==
    LET n == Len(c.verbs)
        marked == IF c.last >= 0 THEN Complement(c.last) ELSE c.last
    IN  IF n > 0 /\ c.verbs[n] # Close
        THEN [c EXCEPT !.verbs = Append(@, Close), !.last = marked, !.ed = TRUE]
        ELSE [c EXCEPT !.last = marked]

\* The four corners of a rect in the order upper-left, upper-right,
\* lower-right, lower-left.
RectCorners(r) ==
    <<<<r.left, r.top>>, <<r.right, r.top>>,
      <<r.right, r.bottom>>, <<r.left, r.bottom>>>>

\* The k-th corner visited when starting at corner `start` in direction dir.
RectPoint(r, dir, start, k) ==
    RectCorners(r)[((start + k * (IF dir = "CW" THEN 1 ELSE 3)) % 4) + 1]

\* Move, Line, Line, Line, Close.
addRect(c, r, dir, start) ==
    closePath(lineTo(lineTo(lineTo(moveTo(c, RectPoint(r, dir, start, 0)),
                                   RectPoint(r, dir, start, 1)),
                            RectPoint(r, dir, start, 2)),
                     RectPoint(r, dir, start, 3)))

RECURSIVE addLines(_, _, _)
addLines(c, pts, i) ==
    IF i > Len(pts) THEN c ELSE addLines(lineTo(c, pts[i]), pts, i + 1)

\* A contour from a line array: starts at pts[1], a line for every further
\* point, Close if requested; no effect for an empty array.
addPoly(c, pts, doClose) ==
    IF Len(pts) < 1
    THEN c
    ELSE LET open == addLines(moveTo(c, pts[1]), pts, 2)
         IN  IF doClose THEN closePath(open) ELSE open

\* Path::polygon / Path::line.
polygon(pts, isClosed) ==
    addPoly([verbs |-> <<>>, pts |-> <<>>, ws |-> <<>>, last |-> -1,
             ed |-> FALSE], pts, isClosed)

RECURSIVE PointCount(_)
PointCount(verbs) ==
    IF verbs = <<>> THEN 0
    ELSE PtsInVerb(Head(verbs)) + PointCount(Tail(verbs))

\* Index of the point of the last Move of a verb array, complemented when
\* the array ends with Close; -1 when there is no Move.
RECURSIVE LastMoveIndex(_)
LastMoveIndex(verbs) ==
    LET n == Len(verbs)
    IN  IF n = 0 THEN -1
        ELSE IF verbs[n] = Move THEN PointCount(SubSeq(verbs, 1, n - 1))
        ELSE LastMoveIndex(SubSeq(verbs, 1, n - 1))

MarkedLastMove(verbs) ==
    LET i == LastMoveIndex(verbs)
    IN  IF verbs # <<>> /\ verbs[Len(verbs)] = Close /\ i >= 0
        THEN Complement(i) ELSE i

Offset(pts, d) == [i \in 1..Len(pts) |-> <<pts[i][1] + d[1], pts[i][2] + d[2]>>]

\* add_path: Append adds the verbs, points and weights of src unaltered
\* (offset by d); Extend adds a line to the start of src instead of its
\* first Move.  No effect for an empty src.
addPath(c, src, d, mode) ==
    LET spts == Offset(src.pts, d)
    IN  IF Len(src.verbs) = 0
        THEN c
        ELSE IF mode = "Extend" /\ Len(c.verbs) > 0
        THEN LET l == lineTo(c, spts[1])
                 v == l.verbs \o Tail(src.verbs)
             IN  [l EXCEPT !.verbs = v,
                           !.pts = @ \o Tail(spts),
                           !.ws = @ \o src.ws,
                           !.last = IF Len(src.verbs) = 1
                                    THEN l.last ELSE MarkedLastMove(v)]
        ELSE LET v == c.verbs \o src.verbs
             IN  [c EXCEPT !.verbs = v,
                           !.pts = @ \o spts,
                           !.ws = @ \o src.ws,
                           !.last = MarkedLastMove(v),
                           !.ed = TRUE]

\* set_last_pt: if the Point array is empty, append Move and p.
setLastPt(c, p) ==
    IF Len(c.pts) = 0
    THEN moveTo(c, p)
    ELSE [c EXCEPT !.pts[Len(c.pts)] = p, !.ed = TRUE]

(***************************************************************************)
(* Writing a content back: a written content goes to the editor's block,   *)
(* whose generation id and cached bounds are thereby invalidated.          *)
(***************************************************************************)
\* Variant: the cached bounds of the block survive the write.
CommitKeepsBounds(h, c) ==
    IF c.ed
    THEN /\ heap' = [heap EXCEPT ![EditorRef(h)] =
                        [fVerbs |-> c.verbs, fPoints |-> c.pts,
                         fConicWeights |-> c.ws, fGenerationID |-> 0,
                         fBoundsIsDirty |-> Ref(h).fBoundsIsDirty,
                         fBounds |-> Ref(h).fBounds]]
         /\ path' = [path EXCEPT ![h].ref = EditorRef(h),
                                 ![h].fLastMoveToIndex = c.last]
    ELSE /\ heap' = heap
         /\ path' = [path EXCEPT ![h].fLastMoveToIndex = c.last]

\* Variant: the generation id of the block survives the write.
CommitKeepsGenID(h, c) ==
    IF c.ed
    THEN /\ heap' = [heap EXCEPT ![EditorRef(h)] =
                        [fVerbs |-> c.verbs, fPoints |-> c.pts,
                         fConicWeights |-> c.ws,
                         fGenerationID |-> Ref(h).fGenerationID,
                         fBoundsIsDirty |-> TRUE, fBounds |-> Ref(h).fBounds]]
         /\ path' = [path EXCEPT ![h].ref = EditorRef(h),
                                 ![h].fLastMoveToIndex = c.last]
    ELSE /\ heap' = heap
         /\ path' = [path EXCEPT ![h].fLastMoveToIndex = c.last]

Commit(h, c) ==
    IF c.ed
    THEN /\ heap' = [heap EXCEPT ![EditorRef(h)] =
                        [fVerbs |-> c.verbs, fPoints |-> c.pts,
                         fConicWeights |-> c.ws, fGenerationID |-> 0,
                         fBoundsIsDirty |-> TRUE, fBounds |-> Ref(h).fBounds]]
         /\ path' = [path EXCEPT ![h].ref = EditorRef(h),
                                 ![h].fLastMoveToIndex = c.last]
    ELSE /\ heap' = heap
         /\ path' = [path EXCEPT ![h].fLastMoveToIndex = c.last]

\* Option<T>: None is the empty sequence, Some(x) the sequence <<x>>.
None == <<>>
Some(x) == <<x>>
UnwrapOr(o, d) == IF o = None THEN d ELSE o[1]

(***************************************************************************)
(* Inputs.                                                                 *)
(***************************************************************************)
MovePts == {<<1, 1>>}
LinePts == {<<2, 3>>}
LastPts == {<<3, 2>>}
RectArgs == {[left |-> 1, top |-> 1, right |-> 3, bottom |-> 2]}
DirStartArgs ==
    {None, Some([dir |-> "CW", start |-> 2]), Some([dir |-> "CCW", start |-> 1])}
PolyArgs == {<<>>, <<<<2, 1>>>>, <<<<2, 1>>, <<1, 3>>>>}
Offsets == {<<1, 0>>}
ModeArgs == {None, Some("Extend")}
QuadArgs == {<<<<2, 3>>, <<1, 1>>>>}
CubicArgs == {<<<<2, 3>>, <<3, 2>>, <<1, 1>>>>}
WeightArgs == {Finite(1), Finite(2), NaN, Infinity}

(***************************************************************************)
(* Operations.  Each records its name and inputs in args.                  *)
(***************************************************************************)
\* shared: the storage of h was shared with another handle when the call
\* was made.
Shared(h) == \E g \in Handles \ {h} : path[g].ref = path[h].ref

Call(op, h, in) == [op |-> op, h |-> h, in |-> in, shared |-> Shared(h)]

move_to(h, p) ==
    /\ Commit(h, moveTo(Content(h), p))
    /\ args' = Call("move_to", h, <<p>>)
    /\ UNCHANGED <<nextID, seen, iter, pc>>

line_to(h, p) ==
    /\ Commit(h, lineTo(Content(h), p))
    /\ args' = Call("line_to", h, <<p>>)
    /\ UNCHANGED <<nextID, seen, iter, pc>>

quad_to(h, p1, p2) ==
    /\ Commit(h, quadTo(Content(h), p1, p2))
    /\ args' = Call("quad_to", h, <<p1, p2>>)
    /\ UNCHANGED <<nextID, seen, iter, pc>>

conic_to(h, p1, p2, w) ==
    /\ Commit(h, conicTo(Content(h), p1, p2, w))
    /\ args' = Call("conic_to", h, <<p1, p2, w>>)
    /\ UNCHANGED <<nextID, seen, iter, pc>>

cubic_to(h, p1, p2, p3) ==
    /\ Commit(h, cubicTo(Content(h), p1, p2, p3))
    /\ args' = Call("cubic_to", h, <<p1, p2, p3>>)
    /\ UNCHANGED <<nextID, seen, iter, pc>>

close(h) ==
    /\ Commit(h, closePath(Content(h)))
    /\ args' = Call("close", h, <<>>)
    /\ UNCHANGED <<nextID, seen, iter, pc>>

\* Variant: the contour starts at the upper-left corner whatever start is.
addRectIgnoresStart(h, r, dir_start) ==
    LET ds == UnwrapOr(dir_start, [dir |-> "CW", start |-> 0])
    IN  /\ Commit(h, addRect(Content(h), r, ds.dir, 0))
        /\ args' = Call("add_rect", h, <<r, dir_start>>)
        /\ UNCHANGED <<nextID, seen, iter, pc>>

add_rect(h, r, dir_start) ==
    LET ds == UnwrapOr(dir_start, [dir |-> "CW", start |-> 0])
    IN  /\ Commit(h, addRect(Content(h), r, ds.dir, ds.start))
        /\ args' = Call("add_rect", h, <<r, dir_start>>)
        /\ UNCHANGED <<nextID, seen, iter, pc>>

add_poly(h, pts, doClose) ==
    /\ Commit(h, addPoly(Content(h), pts, doClose))
    /\ args' = Call("add_poly", h, <<pts, doClose>>)
    /\ UNCHANGED <<nextID, seen, iter, pc>>

add_path(h, src, d, mode) ==
    /\ Commit(h, addPath(Content(h), src, d, UnwrapOr(mode, "Append")))
    /\ args' = Call("add_path", h, <<src.verbs, d, mode>>)
    /\ UNCHANGED <<nextID, seen, iter, pc>>

set_last_pt(h, p) ==
    /\ Commit(h, setLastPt(Content(h), p))
    /\ args' = Call("set_last_pt", h, <<p>>)
    /\ UNCHANGED <<nextID, seen, iter, pc>>

\* A block nobody refers to any more is released.
Release(hp, old) ==
    [i \in DOMAIN hp |-> IF i = old /\ i # EmptyId THEN EmptyRef ELSE hp[i]]

\* Variant: the fill type is kept.
resetKeepsFillType(h) ==
    /\ path' = [path EXCEPT ![h].ref = EmptyId,
                            ![h].fLastMoveToIndex = -1]
    /\ heap' = IF Unique(h) THEN Release(heap, path[h].ref) ELSE heap
    /\ args' = Call("reset", h, <<>>)
    /\ UNCHANGED <<nextID, seen, iter, pc>>

\* reset(): the initial state; storage is released; FillType is Winding.
reset(h) ==
    /\ path' = [path EXCEPT ![h].ref = EmptyId,
                            ![h].fFillType = Winding,
                            ![h].fLastMoveToIndex = -1]
    /\ heap' = IF Unique(h) THEN Release(heap, path[h].ref) ELSE heap
    /\ args' = Call("reset", h, <<>>)
    /\ UNCHANGED <<nextID, seen, iter, pc>>

\* rewind(): the initial state; the storage of a sole owner is retained.
rewind(h) ==
    /\ path' = [path EXCEPT ![h].ref = EditorRef(h),
                            ![h].fFillType = Winding,
                            ![h].fLastMoveToIndex = -1]
    /\ heap' = [heap EXCEPT ![EditorRef(h)] =
                   [fVerbs |-> <<>>, fPoints |-> <<>>, fConicWeights |-> <<>>,
                    fGenerationID |-> IF Unique(h) THEN 0 ELSE 1,
                    fBoundsIsDirty |-> TRUE,
                    fBounds |-> IF Unique(h) THEN Ref(h).fBounds ELSE ZeroRect]]
    /\ args' = Call("rewind", h, <<>>)
    /\ UNCHANGED <<nextID, seen, iter, pc>>

\* The threads that read a path through shared references, and where each
\* is in its call of bounds(): no thread is in a call at first.
Threads == {1, 2}
Idle == [t \in Threads |-> [at |-> "idle"]]

(***************************************************************************)
(* Specification of the mutation API on one path.                          *)
(***************************************************************************)
\* No cursor borrows a path.
NoIter == [kind |-> "none"]

NoArgs == Call("none", "p", <<>>)

Init ==
    /\ path = [h \in Handles |-> NewPath]
    /\ heap = [i \in {EmptyId} \cup RefIds |-> EmptyRef]
    /\ nextID = 2
    /\ seen = {}
    /\ iter = NoIter
    /\ pc = Idle
    /\ args = NoArgs
    /\ nops = 0

\* The paths handed to add_path: the path itself, a line, a closed polygon
\* and an empty path.
SrcPaths(h) ==
    {Content(h), polygon(<<<<0, 2>>, <<2, 0>>>>, FALSE),
     polygon(<<<<0, 2>>, <<2, 0>>>>, TRUE), polygon(<<>>, FALSE)}

Tick(n) == nops < n /\ nops' = nops + 1

Next ==
    \/ \E p \in MovePts : Tick(MaxOps) /\ move_to("p", p)
    \/ \E p \in LinePts : Tick(MaxOps) /\ line_to("p", p)
    \/ \E a \in QuadArgs : Tick(MaxOps) /\ quad_to("p", a[1], a[2])
    \/ \E a \in QuadArgs, w \in WeightArgs :
          Tick(MaxOps) /\ conic_to("p", a[1], a[2], w)
    \/ \E a \in CubicArgs : Tick(MaxOps) /\ cubic_to("p", a[1], a[2], a[3])
    \/ Tick(MaxOps) /\ close("p")
    \/ \E r \in RectArgs, ds \in DirStartArgs :
          Tick(MaxOps) /\ add_rect("p", r, ds)
    \/ \E pts \in PolyArgs, c \in BOOLEAN :
          Tick(MaxOps) /\ add_poly("p", pts, c)
    \/ \E src \in SrcPaths("p"), d \in Offsets, m \in ModeArgs :
          Tick(MaxOps) /\ add_path("p", src, d, m)
    \/ \E p \in LastPts : Tick(MaxOps) /\ set_last_pt("p", p)
    \/ Tick(MaxOps) /\ reset("p")
    \/ Tick(MaxOps) /\ rewind("p")

Spec == Init /\ [][Next]_vars

(***************************************************************************)
(* Properties of the mutation API.                                         *)
(***************************************************************************)
LastVerb(vs) == IF vs = <<>> THEN Done ELSE vs[Len(vs)]

\* The contour-continuation rule applies: the path is empty or its last
\* stored verb is Close.
NeedsMove(h) == Verbs(h) = <<>> \/ LastVerb(Verbs(h)) = Close

SegmentOps == {"line_to", "quad_to", "conic_to", "cubic_to"}

\* The step appended a Move with point pt right after the arrays of h.
MoveAppended(h, pt) ==
    /\ Len(Verbs(h)') > Len(Verbs(h)) + 1
    /\ SubSeq(Verbs(h)', 1, Len(Verbs(h)) + 1) = Verbs(h) \o <<Move>>
    /\ SubSeq(Points(h)', 1, Len(Points(h)) + 1) = Points(h) \o <<pt>>

\* C1: every segment-append operation applied to a path that is empty or
\* whose last verb is Close first appends a Move with point (0, 0), also
\* when the closed contour started somewhere other than (0, 0).
C1_ImplicitMoveAtOrigin ==
    [][\A h \in Handles :
          (args'.op \in SegmentOps /\ args'.h = h /\ NeedsMove(h))
             => MoveAppended(h, <<0, 0>>)]_vars

\* A contour is a Move, then segments, then an optional Close.
WellFormedVerbs(vs) ==
    \A i \in 1..Len(vs) :
        /\ vs[i] \in StoredVerbs
        /\ vs[i] # Move => (i > 1 /\ vs[i - 1] # Close)

\* C3: in every reachable state the stored verb sequence is well-formed:
\* the first verb is Move and every Line, Quad, Conic, Cubic and Close
\* belongs to a contour that begins with a Move.
C3_WellFormed == \A h \in Handles : WellFormedVerbs(Verbs(h))

\* A segment was appended after a Close and got its own Move.
C3_Witness ==
    /\ args.op \in SegmentOps
    /\ \E i \in 1..Len(Verbs("p")) :
          /\ Verbs("p")[i] = Close
          /\ i + 2 <= Len(Verbs("p"))
          /\ Verbs("p")[i + 1] = Move

count_points(h) == Len(Points(h))
count_verbs(h) == Len(Verbs(h))

CountOf(vs, v) == Cardinality({i \in 1..Len(vs) : vs[i] = v})

PointsConsumed(vs) ==
    CountOf(vs, Move) + CountOf(vs, Line) + 2 * CountOf(vs, Quad)
        + 2 * CountOf(vs, Conic) + 3 * CountOf(vs, Cubic)

\* C4: count_points() is the sum over the stored verbs of the points each
\* consumes, there is one conic weight per Conic verb, and count_verbs() is
\* the length of the verb array.
C4_Counts ==
    \A h \in Handles :
        /\ count_points(h) = PointsConsumed(Verbs(h))
        /\ Len(Weights(h)) = CountOf(Verbs(h), Conic)
        /\ count_verbs(h) = Len(Verbs(h))

\* A path holding a Conic next to verbs that take no weight.
C4_Witness ==
    /\ CountOf(Verbs("p"), Conic) = 1
    /\ CountOf(Verbs("p"), Quad) + CountOf(Verbs("p"), Cubic) >= 1
    /\ count_points("p") >= 5

\* The verbs conic_to selects for a weight.
ConicVerbs(w) ==
    IF w = NaN \/ w = Infinity THEN <<Line, Line>>
    ELSE IF w = Finite(1) THEN <<Quad>>
    ELSE <<Conic>>

\* C10: conic_to(p1, p2, w), after the implicit Move if one is needed,
\* appends the points p1, p2 and exactly two Line verbs and no weight when w
\* is NaN or infinite, one Quad verb and no weight when w is one, otherwise
\* one Conic verb and the weight w; what was stored before is unchanged.
C10_ConicSelection ==
    [][\A h \in Handles :
          (args'.op = "conic_to" /\ args'.h = h) =>
             LET p1 == args'.in[1]
                 p2 == args'.in[2]
                 w == args'.in[3]
                 nv == Len(Verbs(h)) + (IF NeedsMove(h) THEN 1 ELSE 0)
                 np == Len(Points(h)) + (IF NeedsMove(h) THEN 1 ELSE 0)
             IN  /\ Len(Verbs(h)') = nv + Len(ConicVerbs(w))
                 /\ SubSeq(Verbs(h)', 1, Len(Verbs(h))) = Verbs(h)
                 /\ NeedsMove(h) => Verbs(h)'[nv] = Move
                 /\ SubSeq(Verbs(h)', nv + 1, Len(Verbs(h)')) = ConicVerbs(w)
                 /\ Len(Points(h)') = np + 2
                 /\ SubSeq(Points(h)', 1, Len(Points(h))) = Points(h)
                 /\ SubSeq(Points(h)', np + 1, np + 2) = <<p1, p2>>
                 /\ Weights(h)' = Weights(h) \o
                       (IF ConicVerbs(w) = <<Conic>> THEN <<w>> ELSE <<>>)]_vars

\* conic_to with a weight of one, after a Close, has added Move and Quad.
C10_Witness ==
    /\ args.op = "conic_to"
    /\ args.in[3] = Finite(1)
    /\ Len(Verbs("p")) >= 4
    /\ SubSeq(Verbs("p"), Len(Verbs("p")) - 2, Len(Verbs("p")))
          = <<Close, Move, Quad>>

(***************************************************************************)
(* Path::new_from: a path built from a verb array, a Point array and       *)
(* conic weights.                                                          *)
(***************************************************************************)
\* The longest verb array, Point array and weight array handed to new_from.
MaxNewVerbs == 3
MaxNewPts == 4
MaxNewWeights == 2

\* Any byte may be handed in as a verb; Done is not a stored verb.
VerbBytes == StoredVerbs \cup {Done}

\* Variant: Close does not end the contour.
RECURSIVE AnalyzeVerbsOpenClose(_)
AnalyzeVerbsOpenClose(verbs) ==
    IF verbs = <<>>
    THEN [valid |-> TRUE, points |-> 0, weights |-> 0, needMove |-> TRUE]
    ELSE LET n == Len(verbs)
             a == AnalyzeVerbsOpenClose(SubSeq(verbs, 1, n - 1))
             v == verbs[n]
         IN  [valid |-> a.valid /\ v \in StoredVerbs
                          /\ (v # Move => ~a.needMove),
              points |-> a.points + PtsInVerb(v),
              weights |-> a.weights + (IF v = Conic THEN 1 ELSE 0),
              needMove |-> IF v = Move THEN FALSE ELSE a.needMove]

\* The verbs are read in order: a contour begins with Move, every segment
\* and Close needs a contour begun, Close ends the contour; the points and
\* weights the verbs read are counted on the way.
RECURSIVE AnalyzeVerbs(_)
AnalyzeVerbs(verbs) ==
    IF verbs = <<>>
    THEN [valid |-> TRUE, points |-> 0, weights |-> 0, needMove |-> TRUE]
    ELSE LET n == Len(verbs)
             a == AnalyzeVerbs(SubSeq(verbs, 1, n - 1))
             v == verbs[n]
         IN  [valid |-> a.valid /\ v \in StoredVerbs
                          /\ (v # Move => ~a.needMove),
              points |-> a.points + PtsInVerb(v),
              weights |-> a.weights + (IF v = Conic THEN 1 ELSE 0),
              needMove |-> IF v = Move THEN FALSE
                           ELSE IF v = Close THEN TRUE ELSE a.needMove]

\* Variant: the number of weights is not looked at.
SufficientPoints(info, pointCount, wCount) == info.points <= pointCount

\* The specified number of points and weights is sufficient given the verbs.
Sufficient(info, pointCount, wCount) ==
    info.points <= pointCount /\ info.weights <= wCount

\* The first n entries of an array.
Take(s, n) == SubSeq(s, 1, IF n < Len(s) THEN n ELSE Len(s))

new_from(h, points, verbs, conic_weights, fill_type, is_volatile) ==
    LET info == AnalyzeVerbs(verbs)
        ok == info.valid /\ Sufficient(info, Len(points), Len(conic_weights))
        id == IF ok /\ verbs # <<>> THEN FreeId(h) ELSE EmptyId
    IN  /\ heap' = IF id = EmptyId THEN heap
                   ELSE [heap EXCEPT ![id] =
                           [fVerbs |-> verbs,
                            fPoints |-> Take(points, info.points),
                            fConicWeights |-> Take(conic_weights, info.weights),
                            fGenerationID |-> 0, fBoundsIsDirty |-> TRUE,
                            fBounds |-> ZeroRect]]
        /\ path' = [path EXCEPT ![h] =
                      IF ok
                      THEN [ref |-> id, fFillType |-> fill_type,
                            fIsVolatile |-> UnwrapOr(is_volatile, FALSE),
                            fLastMoveToIndex |-> -1]
                      ELSE NewPath]
        /\ args' = Call("new_from", h, <<points, verbs, conic_weights,
                                         fill_type, is_volatile>>)
        /\ UNCHANGED <<nextID, seen, iter, pc>>

\* Inputs of new_from.
RECURSIVE SeqsUpTo(_, _)
SeqsUpTo(S, n) ==
    IF n = 0 THEN {<<>>}
    ELSE LET shorter == SeqsUpTo(S, n - 1)
         IN  shorter \cup {Append(s, x) : s \in shorter, x \in S}

NewVerbs == SeqsUpTo(VerbBytes, MaxNewVerbs)
NewPoints == {[i \in 1..n |-> <<i, i + 1>>] : n \in 0..MaxNewPts}
NewWeights == {[i \in 1..n |-> Finite(i + 1)] : n \in 0..MaxNewWeights}
NewFillTypes == {EvenOdd, InverseWinding}
NewVolatile == {None, Some(TRUE)}

InitNew ==
    /\ path = [h \in Handles |-> NewPath]
    /\ heap = [i \in {EmptyId} \cup RefIds |-> EmptyRef]
    /\ nextID = 2
    /\ seen = {}
    /\ iter = NoIter
    /\ pc = Idle
    /\ nops = 0
    /\ \E pts \in NewPoints, vs \in NewVerbs, ws \in NewWeights,
          ft \in NewFillTypes, vol \in NewVolatile :
          args = Call("input", "p", <<pts, vs, ws, ft, vol>>)

NextNew ==
    /\ args.op = "input"
    /\ Tick(1)
    /\ new_from("p", args.in[1], args.in[2], args.in[3], args.in[4], args.in[5])

SpecNew == InitNew /\ [][NextNew]_vars

(***************************************************************************)
(* Properties of new_from.                                                 *)
(***************************************************************************)
IsEmptyPath(h) == Verbs(h) = <<>> /\ Points(h) = <<>> /\ Weights(h) = <<>>

\* C8: new_from returns an empty Path whenever the verb sequence is not a
\* concatenation of contours (Move, then segments, then an optional Close);
\* the result never holds a part of the input only; for a legal input with
\* matching counts the verbs, points, weights, fill type and volatility of
\* the result equal the inputs.
C8_IllegalVerbsGiveEmpty ==
    args.op = "new_from" =>
        LET points == args.in[1]
            verbs == args.in[2]
            ws == args.in[3]
        IN  /\ ~WellFormedVerbs(verbs) => IsEmptyPath("p")
            /\ Verbs("p") \in {<<>>, verbs}
            /\ (/\ WellFormedVerbs(verbs)
                /\ Len(points) = PointsConsumed(verbs)
                /\ Len(ws) = CountOf(verbs, Conic))
                  => /\ Verbs("p") = verbs
                     /\ Points("p") = points
                     /\ Weights("p") = ws
                     /\ path["p"].fFillType = args.in[4]
                     /\ path["p"].fIsVolatile = (args.in[5] = Some(TRUE))

\* An illegal sequence that begins like a legal one was refused as a whole.
C8_Witness ==
    /\ args.op = "new_from"
    /\ Len(args.in[2]) = 3
    /\ SubSeq(args.in[2], 1, 2) = <<Move, Close>>
    /\ args.in[2][3] = Line
    /\ Len(args.in[1]) >= 2
    /\ IsEmptyPath("p")

\* C9 as stated: new_from returns an empty Path whenever the number of
\* points differs from the sum of the per-verb point counts or the number of
\* weights differs from the number of Conic verbs, be it fewer or more.
C9_ExactCounts ==
    args.op = "new_from" =>
        ((\/ Len(args.in[1]) # PointsConsumed(args.in[2])
          \/ Len(args.in[3]) # CountOf(args.in[2], Conic))
            => IsEmptyPath("p"))

\* C9 amended: new_from returns an empty Path whenever there are fewer
\* points than the sum of the per-verb point counts or fewer weights than
\* Conic verbs; points and weights beyond those the verbs read are ignored:
\* for a legal verb sequence with at least the needed counts the result
\* holds the verbs and the first needed points and weights.
C9_SufficientCounts ==
    args.op = "new_from" =>
        LET points == args.in[1]
            verbs == args.in[2]
            ws == args.in[3]
            np == PointsConsumed(verbs)
            nw == CountOf(verbs, Conic)
        IN  /\ (Len(points) < np \/ Len(ws) < nw) => IsEmptyPath("p")
            /\ (WellFormedVerbs(verbs) /\ Len(points) >= np /\ Len(ws) >= nw)
                  => /\ Verbs("p") = verbs
                     /\ Points("p") = SubSeq(points, 1, np)
                     /\ Weights("p") = SubSeq(ws, 1, nw)

\* A legal sequence with a Conic, enough points and no weight was refused.
C9_Witness ==
    /\ args.op = "new_from"
    /\ args.in[2] = <<Move, Conic>>
    /\ Len(args.in[1]) >= 3
    /\ Len(args.in[3]) = 0
    /\ IsEmptyPath("p")

(***************************************************************************)
(* Copies of a path and the cached bounds.                                 *)
(***************************************************************************)
\* The number of operations applied to a path and its copy.
MaxCowOps == 5

\* h becomes a copy of src: the two share the storage; what h held before
\* is dropped.
clone(h, src) ==
    /\ h # src
    /\ path' = [path EXCEPT ![h] = path[src]]
    /\ heap' = IF Unique(h) THEN Release(heap, path[h].ref) ELSE heap
    /\ args' = Call("clone", h, <<src>>)
    /\ UNCHANGED <<nextID, seen, iter, pc>>

MinOf(S) == CHOOSE x \in S : \A y \in S : x <= y
MaxOf(S) == CHOOSE x \in S : \A y \in S : x >= y

\* Minimum and maximum axes values of the Point array; (0, 0, 0, 0) if
\* there are no points.
ComputeBounds(pts) ==
    IF Len(pts) = 0 THEN ZeroRect
    ELSE LET xs == {pts[i][1] : i \in 1..Len(pts)}
             ys == {pts[i][2] : i \in 1..Len(pts)}
         IN  [left |-> MinOf(xs), top |-> MinOf(ys),
              right |-> MaxOf(xs), bottom |-> MaxOf(ys)]

\* What bounds() returns: the cached value unless it has been invalidated.
boundsResult(h) ==
    IF Ref(h).fBoundsIsDirty THEN ComputeBounds(Points(h)) ELSE Ref(h).fBounds

\* bounds(): the value is kept in the storage, where copies find it.
bounds(h) ==
    /\ heap' = [heap EXCEPT ![path[h].ref].fBounds = boundsResult(h),
                            ![path[h].ref].fBoundsIsDirty = FALSE]
    /\ args' = Call("bounds", h, <<boundsResult(h)>>)
    /\ UNCHANGED <<path, nextID, seen, iter, pc>>

(***************************************************************************)
(* The fill type, the volatility flag and the generation id.               *)
(***************************************************************************)
\* The number of operations applied while generation ids are observed.
MaxGenOps == 5

fill_type(h) == path[h].fFillType

set_fill_type(h, ft) ==
    /\ path' = [path EXCEPT ![h].fFillType = ft]
    /\ args' = Call("set_fill_type", h, <<ft>>)
    /\ UNCHANGED <<heap, nextID, seen, iter, pc>>

\* Variant: x ^ 1.
Xor1(x) == IF x % 2 = 0 THEN x + 1 ELSE x - 1

\* x ^ 2 on the two bits of a fill type.
Xor2(x) == IF (x \div 2) % 2 = 0 THEN x + 2 ELSE x - 2

toggle_inverse_fill_type(h) ==
    /\ path' = [path EXCEPT ![h].fFillType = Xor2(path[h].fFillType)]
    /\ args' = Call("toggle_inverse_fill_type", h, <<>>)
    /\ UNCHANGED <<heap, nextID, seen, iter, pc>>

is_volatile(h) == path[h].fIsVolatile

set_is_volatile(h, b) ==
    /\ path' = [path EXCEPT ![h].fIsVolatile = b]
    /\ args' = Call("set_is_volatile", h, <<b>>)
    /\ UNCHANGED <<heap, nextID, seen, iter, pc>>

\* The generation id of every empty path.
EmptyGenID == 1

\* Ids are handed out in turn by a 32-bit counter, which the operations of
\* a behaviour leave far from wrapping; 0 and the id of the empty path are
\* skipped.
SkipReserved(n) == IF n = 0 \/ n = EmptyGenID THEN EmptyGenID + 1 ELSE n

\* What generation_id() returns: the id the storage holds, or a new one
\* when the storage has been written since the last one was handed out.
genID(h) ==
    IF Ref(h).fGenerationID # 0 THEN Ref(h).fGenerationID
    ELSE IF Verbs(h) = <<>> /\ Points(h) = <<>> THEN EmptyGenID
    ELSE SkipReserved(nextID)

\* generation_id(): seen keeps every value returned with the content it
\* was returned for.
generation_id(h) ==
    /\ heap' = [heap EXCEPT ![path[h].ref].fGenerationID = genID(h)]
    /\ nextID' = IF Ref(h).fGenerationID = 0 /\ genID(h) # EmptyGenID
                 THEN genID(h) + 1 ELSE nextID
    /\ seen' = seen \cup {[id |-> genID(h), verbs |-> Verbs(h),
                           pts |-> Points(h), ws |-> Weights(h)]}
    /\ args' = Call("generation_id", h, <<genID(h)>>)
    /\ UNCHANGED <<path, iter, pc>>

\* The weight of the conics added to a path and its copy.
CowWeights == {Finite(2)}

NextCow ==
    \/ \E h \in Handles, p \in MovePts : Tick(MaxCowOps) /\ move_to(h, p)
    \/ \E h \in Handles, p \in LinePts : Tick(MaxCowOps) /\ line_to(h, p)
    \/ \E h \in Handles, a \in QuadArgs, w \in CowWeights :
          Tick(MaxCowOps) /\ conic_to(h, a[1], a[2], w)
    \/ \E h \in Handles, p \in LastPts : Tick(MaxCowOps) /\ set_last_pt(h, p)
    \/ \E h \in Handles : Tick(MaxCowOps) /\ toggle_inverse_fill_type(h)
    \/ \E h \in Handles : Tick(MaxCowOps) /\ reset(h)
    \/ \E h \in Handles : Tick(MaxCowOps) /\ rewind(h)
    \/ \E h \in Handles, src \in Handles : Tick(MaxCowOps) /\ clone(h, src)
    \/ \E h \in Handles : Tick(MaxCowOps) /\ bounds(h)

SpecCow == Init /\ [][NextCow]_vars

NextGen ==
    \/ \E h \in Handles, p \in MovePts : Tick(MaxGenOps) /\ move_to(h, p)
    \/ \E h \in Handles, a \in QuadArgs, w \in CowWeights :
          Tick(MaxGenOps) /\ conic_to(h, a[1], a[2], w)
    \/ \E h \in Handles, p \in LastPts : Tick(MaxGenOps) /\ set_last_pt(h, p)
    \/ \E h \in Handles : Tick(MaxGenOps) /\ reset(h)
    \/ \E h \in Handles : Tick(MaxGenOps) /\ rewind(h)
    \/ \E h \in Handles, src \in Handles : Tick(MaxGenOps) /\ clone(h, src)
    \/ \E h \in Handles : Tick(MaxGenOps) /\ generation_id(h)
    \/ \E h \in Handles, ft \in FillTypes :
          Tick(MaxGenOps) /\ set_fill_type(h, ft)
    \/ \E h \in Handles : Tick(MaxGenOps) /\ toggle_inverse_fill_type(h)
    \/ \E h \in Handles, b \in BOOLEAN : Tick(MaxGenOps) /\ set_is_volatile(h, b)

SpecGen == Init /\ [][NextGen]_vars

(***************************************************************************)
(* Properties of copies, cached bounds, generation ids and the flags.      *)
(***************************************************************************)
StructuralOps ==
    {"move_to", "line_to", "quad_to", "conic_to", "cubic_to", "close",
     "add_rect", "add_poly", "add_path", "set_last_pt", "reset", "rewind"}

FieldOps == {"set_fill_type", "toggle_inverse_fill_type", "set_is_volatile"}

\* What can be read from the value held by g: its arrays, its fill rule and
\* its bounds.
Value(g) ==
    [verbs |-> Verbs(g), pts |-> Points(g), ws |-> Weights(g),
     fill |-> fill_type(g), bounds |-> boundsResult(g)]

\* C2: clone() makes the two values equal, and whatever mutation is then
\* applied to one of them, the verbs, points, conic weights, fill rule and
\* bounds of the other are unchanged, although the storage is shared until
\* the first write.
C2_CloneIndependent ==
    [][\A h \in Handles :
          /\ (args'.h = h /\ args'.op \in StructuralOps \cup FieldOps)
                => \A g \in Handles \ {h} : Value(g)' = Value(g)
          /\ \A src \in Handles :
                (args'.h = h /\ args'.op = "clone" /\ args'.in = <<src>>)
                   => /\ Value(h)' = Value(src)
                      /\ Value(src)' = Value(src)]_vars

\* A path with points was cloned and one of the two was then written while
\* they shared the storage; the other still holds what it held.
C2_Witness ==
    /\ args.op \in {"line_to", "set_last_pt", "conic_to"}
    /\ args.shared
    /\ \E g \in Handles \ {args.h} :
          /\ Points(g) # <<>>
          /\ Points(g) # Points(args.h)
          /\ path[g].ref # path[args.h].ref

\* r is the axis-aligned box of the points: every point lies within r and
\* every side of r passes through a point; (0, 0, 0, 0) for no points.
IsBox(r, pts) ==
    IF pts = <<>> THEN r = ZeroRect
    ELSE /\ \A i \in 1..Len(pts) :
               /\ r.left <= pts[i][1] /\ pts[i][1] <= r.right
               /\ r.top <= pts[i][2] /\ pts[i][2] <= r.bottom
         /\ \E i \in 1..Len(pts) : pts[i][1] = r.left
         /\ \E i \in 1..Len(pts) : pts[i][1] = r.right
         /\ \E i \in 1..Len(pts) : pts[i][2] = r.top
         /\ \E i \in 1..Len(pts) : pts[i][2] = r.bottom

\* C5: whatever structural mutations, bounds() reads and clones came
\* before, bounds() on any path returns the box of the current Point array
\* of that path, (0, 0, 0, 0) when there are no points: a cached value is
\* never returned after the Point array has changed.
C5_BoundsCurrent ==
    /\ \A h \in Handles : IsBox(boundsResult(h), Points(h))
    /\ args.op = "bounds" => IsBox(args.in[1], Points(args.h))

\* bounds() was read on a copy that was written after the bounds had been
\* cached in the storage it shared: both copies now hold their own box.
C5_Witness ==
    /\ args.op = "bounds"
    /\ \E g \in Handles \ {args.h} :
          /\ path[g].ref # path[args.h].ref
          /\ ~Ref(g).fBoundsIsDirty
          /\ Ref(g).fBounds # ZeroRect
          /\ Ref(args.h).fBounds # ZeroRect
          /\ Ref(args.h).fBounds # Ref(g).fBounds
          /\ Len(Points(g)) < Len(Points(args.h))
          /\ Points(g) = SubSeq(Points(args.h), 1, Len(Points(g)))

Inverse(ft) ==
    CASE ft = Winding -> InverseWinding
      [] ft = EvenOdd -> InverseEvenOdd
      [] ft = InverseWinding -> Winding
      [] ft = InverseEvenOdd -> EvenOdd

NoAdjacentClose(vs) ==
    \A i \in 1..(Len(vs) - 1) : ~(vs[i] = Close /\ vs[i + 1] = Close)

\* C11: close() leaves the verbs, points and weights unchanged when the
\* path is empty or its last verb is Close, and otherwise appends exactly
\* one Close verb and no point; a close() right after a close() changes
\* nothing, and no path ever holds two adjacent Close verbs.
C11_CloseOnce ==
    /\ [](\A h \in Handles : NoAdjacentClose(Verbs(h)))
    /\ [][\A h \in Handles :
             (args'.op = "close" /\ args'.h = h) =>
                /\ Points(h)' = Points(h)
                /\ Weights(h)' = Weights(h)
                /\ Verbs(h)' = IF NeedsMove(h) THEN Verbs(h)
                               ELSE Append(Verbs(h), Close)
                /\ (args.op = "close" /\ args.h = h) => Verbs(h)' = Verbs(h)]_vars

\* close() was applied to the closed contour add_rect had just added.
C11_Witness ==
    /\ args.op = "close"
    /\ nops = 2
    /\ Verbs("p") = <<Move, Line, Line, Line, Close>>

(***************************************************************************)
(* Iter and RawIter: cursors over the verb array, the Point array and the  *)
(* conic weights of a path.                                                *)
(***************************************************************************)
\* The longest verb array iterated over, the calls of next() made after a
\* cursor could have yielded everything, the cursors created one after the
\* other, and the steps of one behaviour.
MaxIterVerbs == 3
MaxExtraCalls == 2
MaxCursors == 2
MaxIterSteps == 26

\* Verb::points() of an item: the points next() hands out for the verb,
\* zero to four, the first one of a segment being the point it starts at.
IterPts(v) ==
    CASE v = Move -> 1
      [] v = Line -> 2
      [] v = Quad -> 3
      [] v = Conic -> 3
      [] v = Cubic -> 4
      [] OTHER -> 0

\* A cursor at the start of the arrays of h, which it borrows for as long
\* as it lives.  first: what an exhausted cursor of the same kind yielded
\* before on the same path.
Cursor(kind, h, force_close, first, gen) ==
    [kind |-> kind, h |-> h, borrow |-> h, fForceClose |-> force_close,
     fVerbs |-> 0, fPts |-> 0, fConicWeights |-> 0,
     fNeedClose |-> "no", fCloseLine |-> FALSE,
     fMoveTo |-> <<0, 0>>, fLastPt |-> <<0, 0>>,
     out |-> <<>>, nones |-> 0, first |-> first, gen |-> gen]

\* What the last exhausted cursor yielded, if the new one is of its kind.
Before(kind, force_close) ==
    IF /\ iter.kind = kind
       /\ iter.fForceClose = force_close
       /\ iter.nones > 0
    THEN Some(iter.out) ELSE None

Generation == IF iter.kind = "none" THEN 0 ELSE iter.gen

\* Iter::new(path, force_close); path is not altered.
Iter_new(h, force_close) ==
    /\ Generation < MaxCursors
    /\ iter' = Cursor("Iter", h, force_close, Before("Iter", force_close),
                      Generation + 1)
    /\ args' = Call("Iter::new", h, <<force_close>>)
    /\ UNCHANGED <<path, heap, nextID, seen, pc>>

\* RawIter::new(path).
RawIter_new(h) ==
    /\ Generation < MaxCursors
    /\ iter' = Cursor("RawIter", h, FALSE, Before("RawIter", FALSE),
                      Generation + 1)
    /\ args' = Call("RawIter::new", h, <<>>)
    /\ UNCHANGED <<path, heap, nextID, seen, pc>>

\* The Line and the Close added after an open contour.
AddedLine(it) ==
    [it |-> [it EXCEPT !.fNeedClose = "close", !.fCloseLine = TRUE,
                       !.fLastPt = it.fMoveTo],
     verb |-> Line, pts |-> <<it.fLastPt, it.fMoveTo>>]

AddedClose(it) ==
    [it |-> [it EXCEPT !.fNeedClose = "no"], verb |-> Close, pts |-> <<>>]

\* Variant: nothing is added after an open contour the verb array ends with.
IterNextNoTrailingClose(it, vs, ps) ==
    IF it.fVerbs = Len(vs)
    THEN [it |-> it, verb |-> Done, pts |-> <<>>]
    ELSE LET v == vs[it.fVerbs + 1]
             j == it.fPts
         IN  IF v = Move /\ it.fNeedClose = "line" THEN AddedLine(it)
             ELSE IF v = Move /\ it.fNeedClose = "close" THEN AddedClose(it)
             ELSE [it |-> [it EXCEPT !.fVerbs = @ + 1,
                                     !.fPts = @ + PtsInVerb(v),
                                     !.fConicWeights = IF v = Conic THEN @ + 1
                                                       ELSE @,
                                     !.fNeedClose =
                                        IF v = Move /\ it.fForceClose
                                        THEN "line"
                                        ELSE IF v = Close THEN "no" ELSE @,
                                     !.fLastPt = IF v = Close THEN it.fMoveTo
                                                 ELSE ps[j + PtsInVerb(v)],
                                     !.fMoveTo = IF v = Move THEN ps[j + 1]
                                                 ELSE @,
                                     !.fCloseLine = IF v = Line THEN FALSE
                                                    ELSE @],
                   verb |-> v,
                   pts |-> IF v = Move THEN <<ps[j + 1]>>
                           ELSE IF v = Close THEN <<>>
                           ELSE <<it.fLastPt>> \o
                                SubSeq(ps, j + 1, j + PtsInVerb(v))]

\* Variant: a stored Close of a contour that does not end where it began
\* is preceded by a Line to the start of the contour.
IterNextLineBeforeClose(it, vs, ps) ==
    IF it.fVerbs = Len(vs)
    THEN IF it.fNeedClose = "line" THEN AddedLine(it)
         ELSE IF it.fNeedClose = "close" THEN AddedClose(it)
         ELSE [it |-> it, verb |-> Done, pts |-> <<>>]
    ELSE LET v == vs[it.fVerbs + 1]
             j == it.fPts
         IN  IF v = Move /\ it.fNeedClose = "line" THEN AddedLine(it)
             ELSE IF v = Move /\ it.fNeedClose = "close" THEN AddedClose(it)
             ELSE IF v = Close /\ it.fLastPt # it.fMoveTo
             THEN [it |-> [it EXCEPT !.fCloseLine = TRUE,
                                     !.fLastPt = it.fMoveTo],
                   verb |-> Line, pts |-> <<it.fLastPt, it.fMoveTo>>]
             ELSE [it |-> [it EXCEPT !.fVerbs = @ + 1,
                                     !.fPts = @ + PtsInVerb(v),
                                     !.fConicWeights = IF v = Conic THEN @ + 1
                                                       ELSE @,
                                     !.fNeedClose =
                                        IF v = Move /\ it.fForceClose
                                        THEN "line"
                                        ELSE IF v = Close THEN "no" ELSE @,
                                     !.fLastPt = IF v = Close THEN it.fMoveTo
                                                 ELSE ps[j + PtsInVerb(v)],
                                     !.fMoveTo = IF v = Move THEN ps[j + 1]
                                                 ELSE @,
                                     !.fCloseLine = IF v = Line THEN FALSE
                                                    ELSE @],
                   verb |-> v,
                   pts |-> IF v = Move THEN <<ps[j + 1]>>
                           ELSE IF v = Close THEN <<>>
                           ELSE <<it.fLastPt>> \o
                                SubSeq(ps, j + 1, j + PtsInVerb(v))]

\* The native next() of Iter: the next verb of the verb array with its
\* points, Done when the array is exhausted; with force_close, a Line to
\* the start of the contour and a Close after each open contour.
IterNext(it, vs, ps) ==
    IF it.fVerbs = Len(vs)
    THEN IF it.fNeedClose = "line" THEN AddedLine(it)
         ELSE IF it.fNeedClose = "close" THEN AddedClose(it)
         ELSE [it |-> it, verb |-> Done, pts |-> <<>>]
    ELSE LET v == vs[it.fVerbs + 1]
             j == it.fPts
         IN  IF v = Move /\ it.fNeedClose = "line" THEN AddedLine(it)
             ELSE IF v = Move /\ it.fNeedClose = "close" THEN AddedClose(it)
             ELSE [it |-> [it EXCEPT !.fVerbs = @ + 1,
                                     !.fPts = @ + PtsInVerb(v),
                                     !.fConicWeights = IF v = Conic THEN @ + 1
                                                       ELSE @,
                                     !.fNeedClose =
                                        IF v = Move /\ it.fForceClose
                                        THEN "line"
                                        ELSE IF v = Close THEN "no" ELSE @,
                                     !.fLastPt = IF v = Close THEN it.fMoveTo
                                                 ELSE ps[j + PtsInVerb(v)],
                                     !.fMoveTo = IF v = Move THEN ps[j + 1]
                                                 ELSE @,
                                     !.fCloseLine = IF v = Line THEN FALSE
                                                    ELSE @],
                   verb |-> v,
                   pts |-> IF v = Move THEN <<ps[j + 1]>>
                           ELSE IF v = Close THEN <<>>
                           ELSE <<it.fLastPt>> \o
                                SubSeq(ps, j + 1, j + PtsInVerb(v))]

\* The native next() of RawIter: the verb array as stored.
RawIterNext(it, vs, ps) ==
    IF it.fVerbs = Len(vs)
    THEN [it |-> it, verb |-> Done, pts |-> <<>>]
    ELSE LET v == vs[it.fVerbs + 1]
             j == it.fPts
         IN  [it |-> [it EXCEPT !.fVerbs = @ + 1, !.fPts = @ + PtsInVerb(v)],
              verb |-> v,
              pts |-> IF v = Move THEN <<ps[j + 1]>>
                      ELSE IF v = Close THEN <<>>
                      ELSE <<ps[j]>> \o SubSeq(ps, j + 1, j + PtsInVerb(v))]

\* Variant: Done is handed out as an item.
ItemOfAny(r) ==
    Some([verb |-> r.verb, pts |-> SubSeq(r.pts, 1, IterPts(r.verb)),
          is_close_line |-> r.it.fCloseLine])

\* Iterator::next of Iter and RawIter: None for Verb::Done, otherwise the
\* verb with its points; is_close_line() as read right after.
ItemOf(r) ==
    IF r.verb # Done
    THEN Some([verb |-> r.verb, pts |-> SubSeq(r.pts, 1, IterPts(r.verb)),
               is_close_line |-> r.it.fCloseLine])
    ELSE None

\* The calls of next() a behaviour makes on one cursor.
CallCap(h) == count_verbs(h) + 2 * Len(SelectSeq(Verbs(h), LAMBDA v : v = Move))
                 + MaxExtraCalls

Yield(r) ==
    LET item == ItemOf(r)
    IN  /\ iter' = [r.it EXCEPT !.out = @ \o item,
                                !.nones = IF item = None THEN @ + 1 ELSE @]
        /\ args' = Call("next", iter.h, <<item>>)
        /\ UNCHANGED <<path, heap, nextID, seen, pc>>

Iter_next ==
    /\ iter.kind = "Iter"
    /\ Len(iter.out) + iter.nones < CallCap(iter.h)
    /\ Yield(IterNext(iter, Verbs(iter.h), Points(iter.h)))

RawIter_next ==
    /\ iter.kind = "RawIter"
    /\ Len(iter.out) + iter.nones < CallCap(iter.h)
    /\ Yield(RawIterNext(iter, Verbs(iter.h), Points(iter.h)))

\* The paths iterated over: every legal verb array of up to MaxIterVerbs
\* verbs, the k-th point being (k, k + 1) and every weight 2.
IterVerbs == {vs \in SeqsUpTo(StoredVerbs, MaxIterVerbs) : AnalyzeVerbs(vs).valid}

InitIter ==
    /\ \E vs \in IterVerbs :
          /\ path = [h \in Handles |->
                       IF h = "p" /\ vs # <<>>
                       THEN [NewPath EXCEPT !.ref = 1] ELSE NewPath]
          /\ heap = [i \in {EmptyId} \cup RefIds |->
                       IF i = 1
                       THEN [EmptyRef EXCEPT
                               !.fVerbs = vs,
                               !.fPoints = [k \in 1..AnalyzeVerbs(vs).points
                                               |-> <<k, k + 1>>],
                               !.fConicWeights =
                                   [k \in 1..AnalyzeVerbs(vs).weights
                                       |-> Finite(2)],
                               !.fBoundsIsDirty = TRUE]
                       ELSE EmptyRef]
    /\ nextID = 2
    /\ seen = {}
    /\ iter = NoIter
    /\ pc = Idle
    /\ args = NoArgs
    /\ nops = 0

NextIter ==
    \/ \E f \in BOOLEAN : Tick(MaxIterSteps) /\ Iter_new("p", f)
    \/ Tick(MaxIterSteps) /\ RawIter_new("p")
    \/ Tick(MaxIterSteps) /\ Iter_next
    \/ Tick(MaxIterSteps) /\ RawIter_next

SpecIter == InitIter /\ [][NextIter]_vars

(***************************************************************************)
(* Properties of the cursors.                                              *)
(***************************************************************************)
VerbsOf(items) == [k \in 1..Len(items) |-> items[k].verb]

\* The items a forced-close iteration is to yield from the i-th verb on,
\* j points having been read, in a contour that began at start and is open
\* or not: the stored verbs, and after each open contour a Line to its
\* start and a Close that are not stored.
RECURSIVE ForcedItems(_, _, _, _, _, _)
ForcedItems(vs, ps, i, j, start, open) ==
    LET added == IF open
                 THEN <<[verb |-> Line, stored |-> FALSE, to |-> start],
                        [verb |-> Close, stored |-> FALSE, to |-> start]>>
                 ELSE <<>>
    IN  IF i > Len(vs) THEN added
        ELSE IF vs[i] = Move
        THEN added \o <<[verb |-> Move, stored |-> TRUE, to |-> ps[j + 1]]>>
                \o ForcedItems(vs, ps, i + 1, j + 1, ps[j + 1], TRUE)
        ELSE IF vs[i] = Close
        THEN <<[verb |-> Close, stored |-> TRUE, to |-> start]>>
                \o ForcedItems(vs, ps, i + 1, j, start, FALSE)
        ELSE <<[verb |-> vs[i], stored |-> TRUE,
                to |-> ps[j + PtsInVerb(vs[i])]]>>
                \o ForcedItems(vs, ps, i + 1, j + PtsInVerb(vs[i]), start, open)

Exhausted(kind, force_close) ==
    /\ iter.kind = kind
    /\ iter.fForceClose = force_close
    /\ iter.nones > 0

\* C12: an Iter created with force_close = true yields the stored items of
\* every contour and, after each contour whose last stored verb is not
\* Close, a Line to the start point of the contour and a Close that are not
\* stored; is_close_line() is true right after such a Line and false after
\* a stored Line; the path is not altered.
C12_ForcedClose ==
    /\ [](Exhausted("Iter", TRUE) =>
            LET want == ForcedItems(Verbs(iter.h), Points(iter.h),
                                    1, 0, <<0, 0>>, FALSE)
            IN  /\ VerbsOf(iter.out) = VerbsOf(want)
                /\ \A k \in 1..Len(want) :
                      want[k].verb = Line =>
                         /\ iter.out[k].is_close_line = ~want[k].stored
                         /\ iter.out[k].pts[2] = want[k].to)
    /\ [][args'.op \in {"Iter::new", "next"} =>
             (path' = path /\ heap' = heap)]_vars

\* The forced-close iteration of [Move, Line] has yielded Move, Line, Line
\* to the start, Close.
C12_Witness ==
    /\ Exhausted("Iter", TRUE)
    /\ Verbs(iter.h) = <<Move, Line>>
    /\ VerbsOf(iter.out) = <<Move, Line, Line, Close>>
    /\ iter.out[3].is_close_line
    /\ iter.out[3].pts[2] = Points(iter.h)[1]

C14_Terminates ==
    /\ [](iter.kind # "none" =>
            /\ Len(iter.out) <= count_verbs(iter.h)
                  + 2 * Cardinality({k \in 1..count_verbs(iter.h) :
                                        Verbs(iter.h)[k] = Move})
            /\ (iter.nones > 0 /\ iter.first # None) => iter.out = iter.first[1])
    /\ [][(iter.kind # "none" /\ iter.nones > 0 /\ args'.op = "next")
             => (args'.in = <<None>> /\ iter'.out = iter.out)]_vars

\* A second forced-close cursor was exhausted and asked once more.
C14_Witness ==
    /\ Exhausted("Iter", TRUE)
    /\ iter.gen = 2
    /\ iter.first # None
    /\ iter.nones >= 2
    /\ Len(iter.out) > count_verbs(iter.h)

(***************************************************************************)
(* Equality, serialize and deserialize.                                    *)
(***************************************************************************)
\* The operations of one behaviour that serializes paths, and the longest
\* buffer of arbitrary content handed to deserialize.
MaxSerOps == 5
MaxBytes == 4

\* Variant: the weights are not compared.
eqNoWeights(a, b) ==
    /\ fill_type(a) = fill_type(b)
    /\ Verbs(a) = Verbs(b)
    /\ Points(a) = Points(b)

\* a == b: FillType, verb array, Point array and weights are equivalent.
eq(a, b) ==
    /\ fill_type(a) = fill_type(b)
    /\ Verbs(a) = Verbs(b)
    /\ Points(a) = Points(b)
    /\ Weights(a) = Weights(b)

\* The version the buffer format carries in its first word, above the two
\* bits of the fill type.
Version == 5

RECURSIVE Flatten(_)
Flatten(pts) ==
    IF pts = <<>> THEN <<>>
    ELSE <<Head(pts)[1], Head(pts)[2]>> \o Flatten(Tail(pts))

\* Variant: the fill type is not written.
SerializedNoFill(h) ==
    <<Version * 4,
      Len(Points(h)), Len(Weights(h)), Len(Verbs(h))>>
       \o Flatten(Points(h))
       \o [k \in 1..Len(Weights(h)) |-> Weights(h)[k].v]
       \o Verbs(h)

\* serialize(): the version and the fill type, the three counts, the Point
\* array, the conic weights and the verb array.
Serialized(h) ==
    <<Version * 4 + fill_type(h),
      Len(Points(h)), Len(Weights(h)), Len(Verbs(h))>>
       \o Flatten(Points(h))
       \o [k \in 1..Len(Weights(h)) |-> Weights(h)[k].v]
       \o Verbs(h)

\* Variant: the version of the buffer is not looked at.
ReadFromMemoryAnyVersion(bytes) ==
    IF Len(bytes) < 4
    THEN [n |-> 0]
    ELSE LET np == bytes[2]
             nw == bytes[3]
             nv == bytes[4]
             total == 4 + 2 * np + nw + nv
             verbs == SubSeq(bytes, 4 + 2 * np + nw + 1, total)
             info == AnalyzeVerbs(verbs)
         IN  IF \/ Len(bytes) < total
                \/ ~info.valid
                \/ info.points # np
                \/ info.weights # nw
             THEN [n |-> 0]
             ELSE [n |-> total,
                   fill |-> bytes[1] % 4,
                   pts |-> [k \in 1..np |-> <<bytes[4 + 2 * k - 1],
                                              bytes[4 + 2 * k]>>],
                   ws |-> [k \in 1..nw |-> Finite(bytes[4 + 2 * np + k])],
                   verbs |-> verbs]

\* readFromMemory(): the number of words read, zero if the buffer is too
\* short for what its counts announce, is of another version, or does not
\* hold a legal verb array with the points and weights it reads.
ReadFromMemory(bytes) ==
    IF Len(bytes) < 4
    THEN [n |-> 0]
    ELSE LET np == bytes[2]
             nw == bytes[3]
             nv == bytes[4]
             total == 4 + 2 * np + nw + nv
             verbs == SubSeq(bytes, 4 + 2 * np + nw + 1, total)
             info == AnalyzeVerbs(verbs)
         IN  IF \/ bytes[1] \div 4 # Version
                \/ Len(bytes) < total
                \/ ~info.valid
                \/ info.points # np
                \/ info.weights # nw
             THEN [n |-> 0]
             ELSE [n |-> total,
                   fill |-> bytes[1] % 4,
                   pts |-> [k \in 1..np |-> <<bytes[4 + 2 * k - 1],
                                              bytes[4 + 2 * k]>>],
                   ws |-> [k \in 1..nw |-> Finite(bytes[4 + 2 * np + k])],
                   verbs |-> verbs]

\* serialize(): the buffer is handed to the caller.
serialize(h) ==
    /\ args' = Call("serialize", h, <<Serialized(h)>>)
    /\ UNCHANGED <<path, heap, nextID, seen, iter, pc>>

\* The caller keeps a proper prefix of the buffer it holds.
truncate(n) ==
    /\ args.op \in {"serialize", "truncate", "set_version"}
    /\ n < Len(args.in[1])
    /\ args' = Call("truncate", args.h, <<SubSeq(args.in[1], 1, n)>>)
    /\ UNCHANGED <<path, heap, nextID, seen, iter, pc>>

\* The caller holds a buffer written by another version.
set_version(v) ==
    /\ args.op = "serialize"
    /\ args' = Call("set_version", args.h,
                    <<[args.in[1] EXCEPT ![1] = v * 4 + (@ % 4)]>>)
    /\ UNCHANGED <<path, heap, nextID, seen, iter, pc>>

\* The caller starts with a buffer of arbitrary content.
Data_new(bytes) ==
    /\ args.op = "none"
    /\ args' = Call("Data::new", "p", <<bytes>>)
    /\ UNCHANGED <<path, heap, nextID, seen, iter, pc>>

\* deserialize(data): reads into a new path, which is returned in h if
\* more than zero was read, and dropped otherwise.
deserialize(h) ==
    /\ args.op \in {"serialize", "truncate", "set_version", "Data::new"}
    /\ LET data == args.in[1]
           r == ReadFromMemory(data)
           id == IF r.n > 0 /\ r.verbs # <<>> THEN FreeId(h) ELSE EmptyId
       IN  /\ path' = IF r.n > 0
                      THEN [path EXCEPT ![h] =
                              [NewPath EXCEPT !.ref = id, !.fFillType = r.fill]]
                      ELSE path
           /\ heap' = IF id # EmptyId
                      THEN [heap EXCEPT ![id] =
                              [EmptyRef EXCEPT !.fVerbs = r.verbs,
                                               !.fPoints = r.pts,
                                               !.fConicWeights = r.ws,
                                               !.fBoundsIsDirty = TRUE]]
                      ELSE IF r.n > 0 /\ Unique(h)
                      THEN Release(heap, path[h].ref)
                      ELSE heap
           /\ args' = Call("deserialize", h,
                           <<data, args.op, args.h, r.n > 0>>)
    /\ UNCHANGED <<nextID, seen, iter, pc>>

ByteArgs == SeqsUpTo({0, 1, Version * 4, (Version + 1) * 4}, MaxBytes)

NextSer ==
    \/ \E p \in MovePts : Tick(MaxSerOps) /\ move_to("p", p)
    \/ \E p \in LinePts : Tick(MaxSerOps) /\ line_to("p", p)
    \/ \E a \in QuadArgs, w \in CowWeights :
          Tick(MaxSerOps) /\ conic_to("p", a[1], a[2], w)
    \/ Tick(MaxSerOps) /\ close("p")
    \/ Tick(MaxSerOps) /\ toggle_inverse_fill_type("p")
    \/ Tick(MaxSerOps) /\ serialize("p")
    \/ \E n \in 0..(4 + MaxSerOps * 4) : Tick(MaxSerOps) /\ truncate(n)
    \/ \E v \in {Version - 1, Version + 1} : Tick(MaxSerOps) /\ set_version(v)
    \/ \E bytes \in ByteArgs : Tick(MaxSerOps) /\ Data_new(bytes)
    \/ Tick(MaxSerOps) /\ deserialize("q")

SpecSer == Init /\ [][NextSer]_vars

(***************************************************************************)
(* Properties of serialize and deserialize.                                *)
(***************************************************************************)
\* C15: deserialize(serialize(P)) is Some(Q) with Q == P, for the empty
\* path as for any other.
C15_RoundTrip ==
    (args.op = "deserialize" /\ args.in[2] = "serialize") =>
       /\ args.in[4]
       /\ eq(args.h, args.in[3])

C15_Witness ==
    /\ args.op = "deserialize" /\ args.in[2] = "serialize"
    /\ Verbs("q") = <<Move, Conic, Close>>
    /\ fill_type("q") = InverseWinding

\* C16: deserialize returns None, and no path, for the empty buffer, for
\* a buffer with a malformed header, for every proper prefix of a
\* serialization and for a buffer of another version; it returns Some
\* only when more than zero was read.
C16_MalformedGivesNone ==
    /\ [](args.op = "deserialize" =>
            /\ args.in[4] <=> (ReadFromMemory(args.in[1]).n > 0)
            /\ args.in[2] \in {"truncate", "set_version"} => ~args.in[4]
            /\ (Len(args.in[1]) < 4 \/ args.in[1][1] \div 4 # Version)
                  => ~args.in[4])
    /\ [][(args'.op = "deserialize" /\ ~args'.in[4])
             => UNCHANGED <<path, heap>>]_vars

C16_Witness ==
    /\ args.op = "deserialize" /\ args.in[2] = "truncate"
    /\ Len(args.in[1]) >= 7
    /\ ~args.in[4]
    /\ Verbs("p") # <<>>

(***************************************************************************)
(* convert_conic_to_quads.                                                 *)
(***************************************************************************)
\* The calls of one behaviour and the longest storage handed in.
MaxConicCalls == 2
MaxStorage == 6

\* The width of usize, the type of pow2 and of the storage size.
UsizeBits == 64

\* 2^e as far as it can be told from the length of a storage: every power
\* above the cap is larger than every length.
RECURSIVE Pow2(_)
Pow2(e) == IF e = 0 THEN 1 ELSE 2 * Pow2(e - 1)
PowCap == 16
SatPow2(e) == IF e >= PowCap THEN Pow2(PowCap) ELSE Pow2(e)

\* 1 + 2 * (1 << pow2) in usize.  With overflow checks the shift by the
\* width or more and the product beyond the width panic; without them
\* the shift amount is taken modulo the width and the product wraps.
MaxPtsCount(pow2, checks) ==
    LET shift == pow2 % UsizeBits
    IN  IF checks /\ (pow2 >= UsizeBits \/ pow2 + 1 >= UsizeBits)
        THEN [panic |-> TRUE]
        ELSE IF shift + 1 >= UsizeBits
        THEN [panic |-> FALSE, count |-> 1]
        ELSE [panic |-> FALSE, count |-> 1 + SatPow2(shift + 1)]

\* SkPath::ConvertConicToQuads: writes n quads, at most 2^pow2, as
\* 1 + 2 * n points from the start of the storage, whatever its length.
ConvertConicToQuads(p0, p1, p2, pts, n) ==
    LET written == [k \in 1..(1 + 2 * n) |->
                      IF k = 1 THEN p0 ELSE IF k % 2 = 0 THEN p1 ELSE p2]
    IN  [n |-> n,
         overrun |-> Len(written) > Len(pts),
         pts |-> [k \in 1..Len(pts) |->
                     IF k <= Len(written) THEN written[k] ELSE pts[k]]]

\* convert_conic_to_quads(p0, p1, p2, w, pts, pow2)
convert_conic_to_quads(p0, p1, p2, pts, pow2, checks, n) ==
    /\ n <= SatPow2(pow2)
    /\ LET max_pts_count == MaxPtsCount(pow2, checks)
       IN  args' = Call("convert_conic_to_quads", "p",
                 IF max_pts_count.panic
                 THEN [pow2 |-> pow2, pts |-> pts, out |-> pts,
                       result |-> None, panic |-> TRUE, overrun |-> FALSE]
                 ELSE IF Len(pts) >= max_pts_count.count
                 THEN LET r == ConvertConicToQuads(p0, p1, p2, pts, n)
                      IN  [pow2 |-> pow2, pts |-> pts, out |-> r.pts,
                           result |-> Some(r.n), panic |-> FALSE,
                           overrun |-> r.overrun]
                 ELSE [pow2 |-> pow2, pts |-> pts, out |-> pts,
                       result |-> None, panic |-> FALSE, overrun |-> FALSE])
    /\ UNCHANGED <<path, heap, nextID, seen, iter, pc>>

Pow2Args == {0, 1, 2, UsizeBits - 2, UsizeBits - 1, UsizeBits, UsizeBits + 1}
Storage == {[k \in 1..n |-> <<0, 0>>] : n \in 0..MaxStorage}

NextConic ==
    \/ \E a \in QuadArgs, pts \in Storage, pow2 \in Pow2Args,
          checks \in BOOLEAN, n \in 1..4 :
          /\ Tick(MaxConicCalls)
          /\ convert_conic_to_quads(<<0, 0>>, a[1], a[2], pts, pow2, checks, n)

SpecConic == Init /\ [][NextConic]_vars

\* C17: for every pow2 and every storage, a storage shorter than
\* 1 + 2 * 2^pow2, the number itself and not a wrapped one, gives None and
\* is left as it was; any other gives Some(n) with n <= 2^pow2.
C17_NeverPastStorage ==
    args.op = "convert_conic_to_quads" =>
       IF Len(args.in.pts) < 1 + SatPow2(args.in.pow2 + 1)
       THEN /\ ~args.in.panic
            /\ args.in.result = None
            /\ args.in.out = args.in.pts
       ELSE /\ ~args.in.panic
            /\ args.in.result # None
            /\ UnwrapOr(args.in.result, 0) <= SatPow2(args.in.pow2)
            /\ ~args.in.overrun

(***************************************************************************)
(* get_point.                                                              *)
(***************************************************************************)
\* The operations of one behaviour that reads points, and the largest low
\* half of an index.
MaxPointOps == 4
MaxIndexLow == 3

\* An index of type usize is held as two halves, index = hi * 2^16 + lo,
\* so that values beyond the range of the native int can be told apart.
HalfWord == 65536
Index(hi, lo) == [hi |-> hi, lo |-> lo]

\* index.try_into() to the native int: an error for 2^31 and above.
TryIntoInt(index) ==
    IF index.hi * 2 < HalfWord THEN Some(index) ELSE None

\* index < n, for a count n below 2^16.
IndexBelow(index, n) == index.hi = 0 /\ index.lo < n

\* SkPath::getPoint(index): (0, 0) if index is out of range.
getPoint(h, index) ==
    IF IndexBelow(index, Len(Points(h)))
    THEN Points(h)[index.lo + 1]
    ELSE <<0, 0>>

\* get_point(index): unwrap() panics when the index does not convert.
get_point(h, index) ==
    /\ LET i == TryIntoInt(index)
       IN  args' = Call("get_point", h,
                 IF i = None
                 THEN [index |-> index, panic |-> TRUE, result |-> None]
                 ELSE LET p == getPoint(h, i[1])
                      IN  [index |-> index, panic |-> FALSE,
                           result |-> IF p # <<0, 0>>
                                         \/ IndexBelow(index, count_points(h))
                                      THEN Some(p) ELSE None])
    /\ UNCHANGED <<path, heap, nextID, seen, iter, pc>>

IndexArgs ==
    {Index(hi, lo) : hi \in {0, 1, HalfWord \div 2 - 1, HalfWord \div 2,
                             HalfWord - 1},
                     lo \in 0..MaxIndexLow}

NextPoints ==
    \/ \E p \in MovePts : Tick(MaxPointOps) /\ move_to("p", p)
    \/ \E p \in LinePts : Tick(MaxPointOps) /\ line_to("p", p)
    \/ Tick(MaxPointOps) /\ close("p")
    \/ \E index \in IndexArgs : Tick(MaxPointOps) /\ get_point("p", index)

SpecPoints == Init /\ [][NextPoints]_vars

\* C18: get_point(index) is Some(p), p the Point stored at index, when
\* index < count_points(), also when p is (0, 0); it is None, without a
\* panic, for every other index, those beyond the range of the native int
\* included.
C18_GetPoint ==
    args.op = "get_point" =>
       /\ ~args.in.panic
       /\ args.in.result =
             IF IndexBelow(args.in.index, count_points(args.h))
             THEN Some(Points(args.h)[args.in.index.lo + 1])
             ELSE None

(***************************************************************************)
(* is_interpolatable and interpolate.                                      *)
(***************************************************************************)
\* The operations of one behaviour that interpolates.
MaxLerpOps == 5

\* is_interpolatable(compare): the verb arrays and the weights are
\* equivalent.
is_interpolatable(h, compare) ==
    /\ Verbs(h) = Verbs(compare)
    /\ Weights(h) = Weights(compare)

\* Variant: out is filled whatever the sizes of the Point arrays.
SkInterpolateAnySize(h, ending, weight) ==
    [ok |-> TRUE,
     out |-> [verbs |-> Verbs(h), ws |-> Weights(h), pts |-> Points(h)]]

\* SkPath::interpolate(ending, weight, out): false, and out as it was, if
\* the Point arrays are not of the same size; else the verb array and the
\* weights are copied to out, and its Points are
\* (Point * weight) + ending Point * (1 - weight).
SkInterpolate(h, ending, weight) ==
    IF Len(Points(h)) # Len(Points(ending))
    THEN [ok |-> FALSE]
    ELSE [ok |-> TRUE,
          out |-> [verbs |-> Verbs(h),
                   ws |-> Weights(h),
                   pts |-> [k \in 1..Len(Points(h)) |->
                              <<Points(h)[k][1] * weight
                                  + Points(ending)[k][1] * (1 - weight),
                                Points(h)[k][2] * weight
                                  + Points(ending)[k][2] * (1 - weight)>>]]]

\* interpolate(ending, weight)
interpolate(h, ending, weight) ==
    /\ LET r == SkInterpolate(h, ending, weight)
       IN  args' = Call("interpolate", h,
                        [ending |-> ending, weight |-> weight,
                         result |-> IF r.ok THEN Some(r.out) ELSE None])
    /\ UNCHANGED <<path, heap, nextID, seen, iter, pc>>

LerpWeights == {0, 1, 2}
EndingWeights == {Finite(2), Finite(3)}

NextLerp ==
    \/ \E p \in MovePts : Tick(MaxLerpOps) /\ move_to("p", p)
    \/ \E p \in LinePts : Tick(MaxLerpOps) /\ line_to("p", p)
    \/ \E a \in QuadArgs, w \in CowWeights :
          Tick(MaxLerpOps) /\ conic_to("p", a[1], a[2], w)
    \/ \E p \in LastPts : Tick(MaxLerpOps) /\ move_to("q", p)
    \/ \E p \in LinePts : Tick(MaxLerpOps) /\ line_to("q", p)
    \/ \E a \in QuadArgs, w \in EndingWeights :
          Tick(MaxLerpOps) /\ conic_to("q", a[1], a[2], w)
    \/ \E w \in LerpWeights : Tick(MaxLerpOps) /\ interpolate("p", "q", w)

SpecLerp == Init /\ [][NextLerp]_vars

\* C19: interpolate returns None when the point counts differ; when
\* is_interpolatable(ending) is true it returns Some(out), out with the
\* verbs and weights of self and as many points; neither path is changed.
C19_Interpolate ==
    /\ [](args.op = "interpolate" =>
            /\ count_points(args.h) # count_points(args.in.ending)
                  => args.in.result = None
            /\ is_interpolatable(args.h, args.in.ending) =>
                  /\ args.in.result # None
                  /\ args.in.result[1].verbs = Verbs(args.h)
                  /\ args.in.result[1].ws = Weights(args.h)
                  /\ Len(args.in.result[1].pts) = count_points(args.h))
    /\ [][args'.op = "interpolate" => UNCHANGED <<path, heap>>]_vars

C19_Witness ==
    /\ args.op = "interpolate"
    /\ is_interpolatable("p", "q")
    /\ Verbs("p") = <<Move, Conic>>
    /\ Points("p") # Points("q")
    /\ args.in.weight = 2
    /\ args.in.result # None

(***************************************************************************)
(* Equality of paths.                                                      *)
(***************************************************************************)
\* The operations of one behaviour that compares paths.
MaxEqOps == 5

\* a == b, as called.
Path_eq(a, b) ==
    /\ args' = Call("eq", a, [rhs |-> b, result |-> eq(a, b)])
    /\ UNCHANGED <<path, heap, nextID, seen, iter, pc>>

NextEq ==
    \/ \E h \in Handles, p \in MovePts : Tick(MaxEqOps) /\ move_to(h, p)
    \/ \E h \in Handles, a \in QuadArgs, w \in EndingWeights :
          Tick(MaxEqOps) /\ conic_to(h, a[1], a[2], w)
    \/ \E h \in Handles, src \in Handles : Tick(MaxEqOps) /\ clone(h, src)
    \/ \E h \in Handles : Tick(MaxEqOps) /\ bounds(h)
    \/ \E h \in Handles : Tick(MaxEqOps) /\ generation_id(h)
    \/ \E h \in Handles : Tick(MaxEqOps) /\ toggle_inverse_fill_type(h)
    \/ \E h \in Handles, b \in BOOLEAN : Tick(MaxEqOps) /\ set_is_volatile(h, b)
    \/ Tick(MaxEqOps) /\ Path_eq("p", "q")

SpecEq == Init /\ [][NextEq]_vars

\* C20: two paths are equal exactly when their fill rule, verbs, points
\* and conic weights are all equal, so that one differing conic weight
\* makes them unequal; the volatility flag, the generation id, the cached
\* bounds and the way the paths were built do not count.
C20_Equality ==
    args.op = "eq" =>
       LET a == heap[path[args.h].ref]
           b == heap[path[args.in.rhs].ref]
       IN  args.in.result <=>
              /\ path[args.h].fFillType = path[args.in.rhs].fFillType
              /\ a.fVerbs = b.fVerbs
              /\ a.fPoints = b.fPoints
              /\ a.fConicWeights = b.fConicWeights

C20_Witness ==
    /\ args.op = "eq"
    /\ args.in.result
    /\ path["p"].ref # path["q"].ref
    /\ path["p"].fIsVolatile # path["q"].fIsVolatile
    /\ Ref("p").fBoundsIsDirty # Ref("q").fBoundsIsDirty
    /\ Verbs("p") # <<>>

(***************************************************************************)
(* Path::rect and is_rect.                                                 *)
(***************************************************************************)
\* The operations of one behaviour that builds paths from rects.
MaxRectOps == 3

\* Variant: an unspecified direction is counter-clockwise.
rectDefaultCCW(h, r, dir) ==
    LET c == addRect([verbs |-> <<>>, pts |-> <<>>, ws |-> <<>>,
                      last |-> -1, ed |-> FALSE], r, UnwrapOr(dir, "CCW"), 0)
    IN  /\ heap' = [heap EXCEPT ![FreeId(h)] =
                      [EmptyRef EXCEPT !.fVerbs = c.verbs, !.fPoints = c.pts,
                                       !.fBoundsIsDirty = TRUE]]
        /\ path' = [path EXCEPT ![h] = [NewPath EXCEPT !.ref = FreeId(h),
                                            !.fLastMoveToIndex = c.last]]
        /\ args' = Call("rect", h, <<r, dir>>)
        /\ UNCHANGED <<nextID, seen, iter, pc>>

\* Path::rect(rect, dir): a new path holding the rect as one closed
\* contour that starts at the upper-left corner; dir is CW if not given.
rect(h, r, dir) ==
    LET c == addRect([verbs |-> <<>>, pts |-> <<>>, ws |-> <<>>,
                      last |-> -1, ed |-> FALSE], r, UnwrapOr(dir, "CW"), 0)
    IN  /\ heap' = [heap EXCEPT ![FreeId(h)] =
                      [EmptyRef EXCEPT !.fVerbs = c.verbs, !.fPoints = c.pts,
                                       !.fBoundsIsDirty = TRUE]]
        /\ path' = [path EXCEPT ![h] = [NewPath EXCEPT !.ref = FreeId(h),
                                            !.fLastMoveToIndex = c.last]]
        /\ args' = Call("rect", h, <<r, dir>>)
        /\ UNCHANGED <<nextID, seen, iter, pc>>

\* isRect(): for a path of one contour of four points that are the
\* corners of an axis-aligned rect of non-zero width and height, visited
\* in turn: the rect, whether the contour is closed, and the direction in
\* which the corners are visited (y grows downwards).
isRect(h) ==
    LET vs == Verbs(h)
        ps == Points(h)
        b == ComputeBounds(ps)
    IN  IF /\ vs \in {<<Move, Line, Line, Line, Close>>,
                      <<Move, Line, Line, Line>>}
           /\ b.left < b.right /\ b.top < b.bottom
           /\ {ps[k] : k \in 1..4} = {RectCorners(b)[k] : k \in 1..4}
           /\ \A k \in 1..4 :
                 (ps[k][1] = ps[(k % 4) + 1][1]) # (ps[k][2] = ps[(k % 4) + 1][2])
        THEN Some(<<b, vs[Len(vs)] = Close,
                    IF (ps[2][1] - ps[1][1]) * (ps[3][2] - ps[2][2])
                          - (ps[2][2] - ps[1][2]) * (ps[3][1] - ps[2][1]) > 0
                    THEN "CW" ELSE "CCW">>)
        ELSE None

\* is_rect()
is_rect(h) ==
    /\ args' = Call("is_rect", h, <<isRect(h)>>)
    /\ UNCHANGED <<path, heap, nextID, seen, iter, pc>>

\* Rects with sorted edges, with left and right swapped, and of no width.
RectInputs ==
    {[left |-> 1, top |-> 1, right |-> 3, bottom |-> 2],
     [left |-> 0, top |-> 0, right |-> 2, bottom |-> 2],
     [left |-> 3, top |-> 1, right |-> 1, bottom |-> 2],
     [left |-> 1, top |-> 1, right |-> 1, bottom |-> 2]}
DirArgs == {None, Some("CW"), Some("CCW")}

NextRect ==
    \/ \E r \in RectInputs, dir \in DirArgs : Tick(MaxRectOps) /\ rect("p", r, dir)
    \/ Tick(MaxRectOps) /\ bounds("p")
    \/ Tick(MaxRectOps) /\ is_rect("p")
    \/ \E p \in LinePts : Tick(MaxRectOps) /\ line_to("p", p)

SpecRect == Init /\ [][NextRect]_vars

IsSortedRect(r) == r.left < r.right /\ r.top < r.bottom

isInverseOdd(h) == fill_type(h) % 2 = 1

\* is_inverse_fill_type(): FillType is InverseWinding or InverseEvenOdd.
is_inverse_fill_type(h) == fill_type(h) \in {InverseWinding, InverseEvenOdd}

\* C22: toggle_inverse_fill_type exchanges Winding with InverseWinding and
\* EvenOdd with InverseEvenOdd, and applied twice gives the fill type back;
\* is_inverse_fill_type() is true exactly for the two inverse fill types,
\* so every toggle changes it; fill_type() after set_fill_type(ft) is ft.
C22_InverseFillType ==
    /\ [](/\ \A ft \in FillTypes : Xor2(ft) = Inverse(ft) /\ Xor2(Xor2(ft)) = ft
          /\ \A h \in Handles :
                is_inverse_fill_type(h) <=> (fill_type(h) \div 2 = 1))
    /\ [][\A h \in Handles :
             /\ (args'.op = "toggle_inverse_fill_type" /\ args'.h = h) =>
                   /\ fill_type(h)' = Inverse(fill_type(h))
                   /\ is_inverse_fill_type(h)' = ~is_inverse_fill_type(h)
             /\ (args'.op = "set_fill_type" /\ args'.h = h) =>
                   /\ fill_type(h)' = args'.in[1]
                   /\ is_inverse_fill_type(h)'
                         <=> args'.in[1] \in {InverseWinding, InverseEvenOdd}]_vars

C22_Witness ==
    /\ args.op = "toggle_inverse_fill_type" /\ args.h = "p"
    /\ fill_type("p") = InverseEvenOdd
    /\ is_inverse_fill_type("p")
    /\ nops = 2

(***************************************************************************)
(* The initial state, reset and rewind.                                    *)
(***************************************************************************)
\* is_empty(): the path contains no verb array.
is_empty(h) == Verbs(h) = <<>>

IsInitial(h) ==
    /\ count_verbs(h) = 0
    /\ count_points(h) = 0
    /\ Weights(h) = <<>>
    /\ fill_type(h) = Winding
    /\ is_empty(h)

\* C23: Path::new() and Path::default() have no verbs, no points, no conic
\* weights, fill type Winding and are empty; reset() and rewind() bring a
\* path with any verbs and any fill type back to that state; is_empty() is
\* true exactly when count_verbs() is 0.
C23_InitialState ==
    /\ \A h \in Handles : IsInitial(h)
    /\ [](\A h \in Handles : is_empty(h) <=> (count_verbs(h) = 0))
    /\ [][\A h \in Handles :
             (args'.op \in {"reset", "rewind"} /\ args'.h = h) => IsInitial(h)']_vars

C23_Witness ==
    /\ args.op = "rewind" /\ args.h = "p"
    /\ is_empty("p")
    /\ nops = 3
    /\ ~is_empty("q")
    /\ path["p"].ref # EmptyId

(***************************************************************************)
(* The borrow a cursor holds on its path.                                  *)
(***************************************************************************)
\* The operations of one behaviour in which cursors and mutations of two
\* paths are interleaved.
MaxBorrowOps == 5

\* A cursor is live from its creation until it is dropped; a behaviour
\* has one cursor at a time.
Live == iter.kind # "none"

\* &mut self of a mutation: no cursor borrowing h is live.
Exclusive(h) == ~(Live /\ iter.borrow = h)

\* Variant: the cursor keeps the lifetime it had before set_path.
IterSetPathKeepsBorrow(h, force_close) ==
    /\ iter.kind = "Iter"
    /\ iter' = [Cursor("Iter", h, force_close, None, iter.gen)
                   EXCEPT !.borrow = iter.borrow]
    /\ args' = Call("Iter::set_path", h, <<force_close>>)
    /\ UNCHANGED <<path, heap, nextID, seen, pc>>

\* Iter::set_path(self, path, force_close): the cursor is consumed; the
\* one returned starts at the beginning of path and borrows it.
Iter_set_path(h, force_close) ==
    /\ iter.kind = "Iter"
    /\ iter' = Cursor("Iter", h, force_close, None, iter.gen)
    /\ args' = Call("Iter::set_path", h, <<force_close>>)
    /\ UNCHANGED <<path, heap, nextID, seen, pc>>

\* RawIter::set_path(self, path)
RawIter_set_path(h) ==
    /\ iter.kind = "RawIter"
    /\ iter' = Cursor("RawIter", h, FALSE, None, iter.gen)
    /\ args' = Call("RawIter::set_path", h, <<>>)
    /\ UNCHANGED <<path, heap, nextID, seen, pc>>

\* Drop for Iter and RawIter: the borrow ends.
Iter_drop ==
    /\ Live
    /\ iter' = NoIter
    /\ args' = Call("drop", iter.h, <<>>)
    /\ UNCHANGED <<path, heap, nextID, seen, pc>>

NextBorrow ==
    \/ \E h \in Handles, p \in MovePts :
          Tick(MaxBorrowOps) /\ Exclusive(h) /\ move_to(h, p)
    \/ \E h \in Handles, p \in LinePts :
          Tick(MaxBorrowOps) /\ Exclusive(h) /\ line_to(h, p)
    \/ \E h \in Handles : Tick(MaxBorrowOps) /\ Exclusive(h) /\ reset(h)
    \/ \E h \in Handles, src \in Handles :
          Tick(MaxBorrowOps) /\ Exclusive(h) /\ clone(h, src)
    \/ \E h \in Handles, f \in BOOLEAN :
          Tick(MaxBorrowOps) /\ ~Live /\ Iter_new(h, f)
    \/ \E h \in Handles : Tick(MaxBorrowOps) /\ ~Live /\ RawIter_new(h)
    \/ \E h \in Handles, f \in BOOLEAN :
          Tick(MaxBorrowOps) /\ Iter_set_path(h, f)
    \/ \E h \in Handles : Tick(MaxBorrowOps) /\ RawIter_set_path(h)
    \/ Tick(MaxBorrowOps) /\ Iter_next
    \/ Tick(MaxBorrowOps) /\ RawIter_next
    \/ Tick(MaxBorrowOps) /\ Iter_drop

SpecBorrow == Init /\ [][NextBorrow]_vars

CursorOps == {"Iter::new", "RawIter::new", "Iter::set_path", "RawIter::set_path"}

\* C24: while a cursor obtained from a path by new or set_path is live, no
\* operation changes that path or releases its storage, whatever else is
\* interleaved; every item it yields is the one the native cursor reads
\* from the unchanged arrays.
C24_BorrowedPathUnchanged ==
    /\ [](Live => iter.borrow = iter.h)
    /\ [][(Live /\ iter'.kind # "none" /\ args'.op \notin CursorOps) =>
             /\ iter'.h = iter.h
             /\ path'[iter.h] = path[iter.h]
             /\ Verbs(iter.h)' = Verbs(iter.h)
             /\ Points(iter.h)' = Points(iter.h)
             /\ Weights(iter.h)' = Weights(iter.h)]_vars

C24_Witness ==
    /\ Live /\ iter.h = "q" /\ Len(iter.out) > 0
    /\ args.op = "move_to" /\ args.h = "p"
    /\ Verbs("q") # <<>>

(***************************************************************************)
(* bounds() from several threads and update_bounds_cache.                  *)
(***************************************************************************)
\* The operations of one behaviour in which threads read bounds.
MaxBoundsOps == 5

\* &mut self: no thread is in a call on a shared reference.
NoReader == \A t \in Threads : pc[t].at = "idle"

\* Variant: the bounds are not touched.
updateBoundsCacheNever(h) ==
    /\ NoReader
    /\ args' = Call("update_bounds_cache", h, <<>>)
    /\ UNCHANGED <<path, heap, nextID, seen, iter, pc>>

\* update_bounds_cache(): bounds(), the returned value ignored.
update_bounds_cache(h) ==
    /\ NoReader
    /\ heap' = [heap EXCEPT ![path[h].ref].fBounds = boundsResult(h),
                            ![path[h].ref].fBoundsIsDirty = FALSE]
    /\ args' = Call("update_bounds_cache", h, <<>>)
    /\ UNCHANGED <<path, nextID, seen, iter, pc>>

\* bounds() called by thread t through a shared reference: it returns the
\* cached value at once unless the cache is dirty; if it is, the thread
\* goes on to compute the bounds.
bounds_begin(t, h) ==
    /\ pc[t].at = "idle"
    /\ IF Ref(h).fBoundsIsDirty
       THEN /\ pc' = [pc EXCEPT ![t] = [at |-> "compute", h |-> h]]
            /\ args' = Call("bounds_begin", h, <<t>>)
       ELSE /\ pc' = pc
            /\ args' = Call("bounds", h, <<Ref(h).fBounds, t>>)
    /\ UNCHANGED <<path, heap, nextID, seen, iter>>

\* Thread t stores the bounds it computed and returns them.  The store is
\* not synchronized: made while another thread computes the bounds of the
\* same storage, it leaves either value of each field.
bounds_end(t, torn) ==
    /\ pc[t].at = "compute"
    /\ torn =>
          \E u \in Threads \ {t} :
             /\ pc[u].at = "compute"
             /\ path[pc[u].h].ref = path[pc[t].h].ref
    /\ LET h == pc[t].h
           b == IF torn THEN Ref(h).fBounds ELSE ComputeBounds(Points(h))
       IN  /\ heap' = [heap EXCEPT ![path[h].ref].fBounds = b,
                                   ![path[h].ref].fBoundsIsDirty = FALSE]
           /\ args' = Call("bounds", h, <<b, t>>)
    /\ pc' = [pc EXCEPT ![t] = [at |-> "idle"]]
    /\ UNCHANGED <<path, nextID, seen, iter>>

NextBounds ==
    \/ \E h \in Handles, p \in MovePts :
          Tick(MaxBoundsOps) /\ NoReader /\ move_to(h, p)
    \/ \E h \in Handles, p \in LinePts :
          Tick(MaxBoundsOps) /\ NoReader /\ line_to(h, p)
    \/ \E h \in Handles, src \in Handles :
          Tick(MaxBoundsOps) /\ NoReader /\ clone(h, src)
    \/ \E h \in Handles : Tick(MaxBoundsOps) /\ update_bounds_cache(h)
    \/ \E t \in Threads, h \in Handles : Tick(MaxBoundsOps) /\ bounds_begin(t, h)
    \/ \E t \in Threads, torn \in BOOLEAN : Tick(MaxBoundsOps) /\ bounds_end(t, torn)

SpecBounds == Init /\ [][NextBounds]_vars

\* The bounds of the storage of h are cached and no thread is computing
\* them.
Cached(h) ==
    /\ ~Ref(h).fBoundsIsDirty
    /\ \A t \in Threads :
          pc[t].at = "compute" => path[pc[t].h].ref # path[h].ref

MaxCopyOps == 3
MaxSliceLen == 3

\* A slice of len elements, len held as an Index; elems are its first
\* elements, all of them unless the slice is longer than 2^16.
Slice(len, x) ==
    [len |-> len,
     elems |-> [k \in 1..(IF len.hi = 0 THEN len.lo ELSE MaxSliceLen) |-> x]]

\* min(len, n) for a count n below 2^16.
MinLen(len, n) == IF IndexBelow(len, n) THEN len.lo ELSE n

\* getPoints(points, max), getVerbs(verbs, max): up to max elements are
\* copied; storage in excess is unaltered; returns the array length.
CopyOut(array, slice) ==
    [n |-> Len(array),
     elems |-> [k \in 1..Len(slice.elems) |->
                  IF k <= MinLen(slice.len, Len(array))
                  THEN array[k] ELSE slice.elems[k]]]

\* get_points(points) and get_verbs(verbs): the length of the slice is
\* converted to the native int, and unwrap() panics when it does not fit.
GetArray(op, h, array, slice) ==
    /\ args' = Call(op, h,
                 IF TryIntoInt(slice.len) = None
                 THEN [slice |-> slice, panic |-> TRUE, result |-> 0,
                       out |-> slice.elems]
                 ELSE LET r == CopyOut(array, slice)
                      IN  [slice |-> slice, panic |-> FALSE, result |-> r.n,
                           out |-> r.elems])
    /\ UNCHANGED <<path, heap, nextID, seen, iter, pc>>

get_points(h, points) == GetArray("get_points", h, Points(h), points)

get_verbs(h, verbs) == GetArray("get_verbs", h, Verbs(h), verbs)

SliceLens ==
    {Index(0, lo) : lo \in 0..MaxSliceLen}
       \cup {Index(HalfWord \div 2 - 1, HalfWord - 1), Index(HalfWord \div 2, 0)}

NextCopy ==
    \/ \E p \in MovePts : Tick(MaxCopyOps) /\ move_to("p", p)
    \/ \E p \in LinePts : Tick(MaxCopyOps) /\ line_to("p", p)
    \/ \E r \in RectArgs : Tick(MaxCopyOps) /\ add_rect("p", r, None)
    \/ \E len \in SliceLens :
          Tick(MaxCopyOps) /\ get_points("p", Slice(len, <<9, 9>>))
    \/ \E len \in SliceLens :
          Tick(MaxCopyOps) /\ get_verbs("p", Slice(len, 255))

SpecCopy == Init /\ [][NextCopy]_vars

\* C26: for every path and every slice, get_points returns count_points(),
\* whatever the length of the slice, copies the first
\* min(points.len(), count_points()) points in order and leaves the other
\* elements of the slice as they were, and get_verbs does the same for the
\* verb array; add_rect on an empty path adds exactly 4 points.
C26_CopyOut ==
    /\ [](args.op \in {"get_points", "get_verbs"} =>
            LET array == IF args.op = "get_points"
                         THEN Points(args.h) ELSE Verbs(args.h)
                n == MinLen(args.in.slice.len, Len(array))
            IN  /\ ~args.in.panic
                /\ args.in.result = Len(array)
                /\ \A k \in 1..Len(args.in.out) :
                      args.in.out[k] = IF k <= n THEN array[k]
                                       ELSE args.in.slice.elems[k])
    /\ [][\A h \in Handles :
             (args'.op = "add_rect" /\ args'.h = h /\ Points(h) = <<>>) =>
                count_points(h)' = 4]_vars

Beside == {Finite(0), Finite(2)}

\* conic_weight(): None if the position of the cursor in the weight array
\* is null, as it is for a path without weights; otherwise what is stored
\* at that position, the weight of the last Conic returned, whatever verb
\* next() returned last.
Iter_conic_weight(g) ==
    /\ iter.kind = "Iter"
    /\ args' = Call("conic_weight", iter.h,
                    <<IF Weights(iter.h) = <<>> THEN None
                      ELSE IF iter.fConicWeights = 0 THEN Some(g)
                      ELSE Some(Weights(iter.h)[iter.fConicWeights])>>)
    /\ UNCHANGED <<path, heap, nextID, seen, iter, pc>>

NextConicWeight ==
    \/ \E f \in BOOLEAN : Tick(MaxIterSteps) /\ Iter_new("p", f)
    \/ Tick(MaxIterSteps) /\ Iter_next
    \/ \E g \in Beside : Tick(MaxIterSteps) /\ Iter_conic_weight(g)

SpecConicWeight == InitIter /\ [][NextConicWeight]_vars

\* The verb the last call of next() returned: Done if it returned None or
\* has not been called.
LastReturned ==
    IF iter.nones > 0 \/ iter.out = <<>> THEN Done
    ELSE iter.out[Len(iter.out)].verb

\* C28: conic_weight() is Some(w) only when the last next() returned a
\* Conic, w being the weight stored for it; it is None before the first
\* next() and after next() returned any other verb.
C28_ConicWeight ==
    args.op = "conic_weight" =>
       args.in[1] =
          IF LastReturned = Conic
          THEN Some(Weights(iter.h)[Len(SelectSeq(iter.out,
                                       LAMBDA i : i.verb = Conic))])
          ELSE None

(***************************************************************************)
(* RawIter::peek.                                                          *)
(***************************************************************************)
MaxPeekOps == 8

\* Variant: peek looks one verb too far.
RawIterPeekSkips(it, vs) ==
    IF it.fVerbs + 1 >= Len(vs) THEN Done ELSE vs[it.fVerbs + 2]

\* SkPath::RawIter::peek: the verb at the position of the cursor, Done at
\* the end of the verb array; the cursor is not written.
RawIterPeek(it, vs) ==
    IF it.fVerbs = Len(vs) THEN Done ELSE vs[it.fVerbs + 1]

RawIter_peek ==
    /\ iter.kind = "RawIter"
    /\ args' = Call("peek", iter.h, <<RawIterPeek(iter, Verbs(iter.h))>>)
    /\ UNCHANGED <<path, heap, nextID, seen, iter, pc>>

NextPeek ==
    \/ Tick(MaxPeekOps) /\ RawIter_new("p")
    \/ Tick(MaxPeekOps) /\ RawIter_next
    \/ Tick(MaxPeekOps) /\ RawIter_peek

SpecPeek == InitIter /\ [][NextPeek]_vars

\* next() returns the item after a peek that returned verb v.
Peeked(v, item) ==
    IF v = Done THEN item = None ELSE item # None /\ item[1].verb = v

\* C29: peek() leaves the RawIter where it is: repeated peeks return the
\* same verb, the verb is that of the item the following next() returns,
\* and it is Done exactly when that next() returns None; the items of a
\* RawIter are the stored verbs in order, no Line or Close added.
C29_PeekDoesNotAdvance ==
    /\ [](iter.kind = "RawIter" =>
             VerbsOf(iter.out) = SubSeq(Verbs(iter.h), 1, Len(iter.out)))
    /\ [][/\ args'.op = "peek" => UNCHANGED <<iter, path, heap>>
          /\ (args.op = "peek" /\ args'.op = "peek") => args'.in = args.in
          /\ (args.op = "peek" /\ args'.op = "next")
                => Peeked(args.in[1], args'.in[1])]_vars

\* After two peeks at a Close that does not end at the start of its
\* contour, next() returned that Close, and the following peek Done.
C29_Witness ==
    /\ iter.kind = "RawIter"
    /\ Verbs(iter.h) = <<Move, Line, Close>>
    /\ VerbsOf(iter.out) = <<Move, Line, Close>>
    /\ args.op = "peek"
    /\ args.in[1] = Done
    /\ nops = 7

(***************************************************************************)
(* YUVAPixmapInfo and YUVAPixmaps.                                         *)
(***************************************************************************)
MaxPlaneOps == 4
MaxPlaneIndex == 5

MAX_PLANES == 4

\* A Pixmap of the given row bytes over the pixels of plane k; the default
\* Pixmap has no pixels.
Pixmap(k, rowBytes) == [pixels |-> k, rowBytes |-> rowBytes]
DefaultPixmap == Pixmap(0, 0)

\* ImageInfo of plane k.
PlaneInfo(k) == [plane |-> k]

\* YUVAPixmapInfo::new for a YUVAInfo of n planes: None unless the result
\* is valid; row bytes of None are bpp * width, here 4 for every plane;
\* values beyond the number of planes are ignored.
YUVAPixmapInfo_new(n, row_bytes) ==
    IF n = 0 THEN None
    ELSE Some([numPlanes |-> n,
               fRowBytes |-> [k \in 1..MAX_PLANES |->
                                IF k > n THEN 0
                                ELSE IF row_bytes = None THEN 4
                                ELSE row_bytes[1][k]],
               fPlaneInfos |-> [k \in 1..MAX_PLANES |->
                                  IF k > n THEN PlaneInfo(0) ELSE PlaneInfo(k)]])

\* YUVAPixmaps::allocate: the first numPlanes pixmaps are configured, the
\* others are default initialized.
YUVAPixmaps_allocate(info) ==
    Some([numPlanes |-> info.numPlanes,
          fPlanes |-> [k \in 1..MAX_PLANES |->
                         IF k > info.numPlanes THEN DefaultPixmap
                         ELSE Pixmap(k, info.fRowBytes[k])]])

\* planes(): slice::from_raw_parts(planes, self.num_planes()).
planes(pixmaps) == SubSeq(pixmaps.fPlanes, 1, pixmaps.numPlanes)

\* plane(i) is &self.planes()[i]: indexing a slice at or past its length
\* panics.
plane(pixmaps, i) ==
    IF i < Len(planes(pixmaps))
    THEN [panic |-> FALSE, result |-> Some(planes(pixmaps)[i + 1])]
    ELSE [panic |-> TRUE, result |-> None]

\* row_bytes(i) and plane_info(i): None unless i < num_planes().
row_bytes(info, i) ==
    IF i < info.numPlanes THEN Some(info.fRowBytes[i + 1]) ELSE None

plane_info(info, i) ==
    IF i < info.numPlanes THEN Some(info.fPlaneInfos[i + 1]) ELSE None

\* The objects at hand and the last call on them.
Planes(info, pixmaps, i, r) ==
    [info |-> info, pixmaps |-> pixmaps, i |-> i,
     panic |-> r.panic, result |-> r.result]

Returned(x) == [panic |-> FALSE, result |-> x]

PlaneCall(op, in) ==
    /\ args' = Call(op, "p", in)
    /\ UNCHANGED <<path, heap, nextID, seen, iter, pc>>

PlaneOps == {"YUVAPixmapInfo::new", "allocate", "plane", "planes",
             "row_bytes", "plane_info"}

HasInfo == args.op \in PlaneOps /\ args.in.info # None
HasPixmaps == args.op \in PlaneOps /\ args.in.pixmaps # None

Info_new(n, rb) ==
    /\ args.op = "none"
    /\ LET info == YUVAPixmapInfo_new(n, rb)
       IN  PlaneCall("YUVAPixmapInfo::new", Planes(info, None, 0, Returned(info)))

Pixmaps_allocate ==
    /\ HasInfo
    /\ LET pixmaps == YUVAPixmaps_allocate(args.in.info[1])
       IN  PlaneCall("allocate", Planes(args.in.info, pixmaps, 0, Returned(pixmaps)))

Pixmaps_plane(i) ==
    /\ HasPixmaps
    /\ PlaneCall("plane", Planes(args.in.info, args.in.pixmaps, i,
                                 plane(args.in.pixmaps[1], i)))

Pixmaps_planes ==
    /\ HasPixmaps
    /\ PlaneCall("planes", Planes(args.in.info, args.in.pixmaps, 0,
                                  Returned(planes(args.in.pixmaps[1]))))

Info_row_bytes(i) ==
    /\ HasInfo
    /\ PlaneCall("row_bytes", Planes(args.in.info, args.in.pixmaps, i,
                                     Returned(row_bytes(args.in.info[1], i))))

Info_plane_info(i) ==
    /\ HasInfo
    /\ PlaneCall("plane_info", Planes(args.in.info, args.in.pixmaps, i,
                                      Returned(plane_info(args.in.info[1], i))))

RowBytesArgs == {None, Some(<<8, 8, 8, 8>>), Some(<<8, 4, 4, 8>>)}

NextPlanes ==
    \/ \E n \in 0..MAX_PLANES, rb \in RowBytesArgs :
          Tick(MaxPlaneOps) /\ Info_new(n, rb)
    \/ Tick(MaxPlaneOps) /\ Pixmaps_allocate
    \/ \E i \in 0..MaxPlaneIndex : Tick(MaxPlaneOps) /\ Pixmaps_plane(i)
    \/ Tick(MaxPlaneOps) /\ Pixmaps_planes
    \/ \E i \in 0..MaxPlaneIndex : Tick(MaxPlaneOps) /\ Info_row_bytes(i)
    \/ \E i \in 0..MaxPlaneIndex : Tick(MaxPlaneOps) /\ Info_plane_info(i)

SpecPlanes == Init /\ [][NextPlanes]_vars

\* C30: plane(i) returns the i-th plane when i < num_planes() and a default
\* initialized Pixmap, without panicking, when i >= num_planes(); planes()
\* has num_planes() elements; row_bytes(i) and plane_info(i) are None
\* exactly when i >= num_planes().
C30_Planes ==
    /\ args.op = "plane" =>
          /\ ~args.in.panic
          /\ args.in.result =
                IF args.in.i < args.in.pixmaps[1].numPlanes
                THEN Some(args.in.pixmaps[1].fPlanes[args.in.i + 1])
                ELSE Some(DefaultPixmap)
    /\ args.op = "planes" =>
          Len(args.in.result) = args.in.pixmaps[1].numPlanes
    /\ args.op \in {"row_bytes", "plane_info"} =>
          (args.in.result = None <=> args.in.i >= args.in.info[1].numPlanes)

====
